---- MODULE Spec2Model ----
(***************************************************************************)
(* Data-access and caching layer of the Long Beach dashboard                *)
(* (src/fetch_census_data.py): resolver, request executor with the ZCTA     *)
(* quirk handler, lru memo + TTL caches, multi-variable batching and the    *)
(* multi-year fan-out.                                                      *)
(*                                                                          *)
(* Strings that the code inspects (variable codes) are sequences of         *)
(* one-character strings, so strip(), upper() and startswith() are computed.*)
(* Geography clauses and error bodies are sequences of tokens.              *)
(***************************************************************************)
EXTENDS Integers, Sequences, FiniteSets, TLC

(***************************************************************************)
(* String helpers (Python str.strip, str.upper, str.lower, startswith, in)  *)
(***************************************************************************)
LowerLetters == <<"a","b","c","d","e","f","g","h","i","j","k","l","m",
                  "n","o","p","q","r","s","t","u","v","w","x","y","z">>

UpperLetters == <<"A","B","C","D","E","F","G","H","I","J","K","L","M",
                  "N","O","P","Q","R","S","T","U","V","W","X","Y","Z">>

UpperChar(c) ==
    IF \E i \in 1..Len(LowerLetters) : LowerLetters[i] = c
    THEN UpperLetters[CHOOSE i \in 1..Len(LowerLetters) : LowerLetters[i] = c]
    ELSE c

Upper(s) == [i \in 1..Len(s) |-> UpperChar(s[i])]

IsSpace(c) == c \in {" ", "\t", "\n"}

RECURSIVE LStrip(_)
LStrip(s) == IF s # <<>> /\ IsSpace(Head(s)) THEN LStrip(Tail(s)) ELSE s

RECURSIVE RStrip(_)
RStrip(s) ==
    IF s # <<>> /\ IsSpace(s[Len(s)]) THEN RStrip(SubSeq(s, 1, Len(s) - 1)) ELSE s

Strip(s) == RStrip(LStrip(s))

StartsWith(s, p) == Len(s) >= Len(p) /\ SubSeq(s, 1, Len(p)) = p

Contains(s, p) ==
    \E i \in 1..(Len(s) + 1) :
        i + Len(p) - 1 <= Len(s) /\ SubSeq(s, i, i + Len(p) - 1) = p

(***************************************************************************)
(* Program constants                                                        *)
(***************************************************************************)
_TTL_MINUTES == 60

DP05_0001E == <<"D","P","0","5","_","0","0","0","1","E">>

DP05_0018E == <<"D","P","0","5","_","0","0","1","8","E">>

B01003_001E == <<"B","0","1","0","0","3","_","0","0","1","E">>

B01002_001E == <<"B","0","1","0","0","2","_","0","0","1","E">>

ProfileDataset == "acs/acs5/profile"

DetailedDataset == "acs/acs5"

ZctaPrefix == <<"zip code tabulation area", ":">>

State06 == <<"state", ":", "06">>

CITY_GEO == [for |-> <<"place", ":", "43000">>, in |-> State06]

US_GEO == [for |-> <<"us", ":", "1">>]

LB_ZCTAS == {"90802"}

zcta_geo(z) == [for |-> <<"zip code tabulation area", ":", z>>]

\* the dict ZCTA_OVERRIDES
ZCTA_OVERRIDES ==
    [c \in {DP05_0001E, DP05_0018E} |->
        IF c = DP05_0001E THEN B01003_001E ELSE B01002_001E]

\* Python None and the empty string are both the empty sequence: the code
\* only ever tests them for truth or stores them in a key.
None == <<>>

\* dict.get(k) with the default None
GeoGet(geo, k) == IF k \in DOMAIN geo THEN geo[k] ELSE None

(***************************************************************************)
(* Resolver                                                                 *)
(***************************************************************************)
is_zcta_geo(geo) == StartsWith(GeoGet(geo, "for"), ZctaPrefix)

dataset_for(code) ==
    LET c == Upper(Strip(code))
    IN  IF StartsWith(c, <<"D", "P">>) THEN ProfileDataset ELSE DetailedDataset

\* the override applied whatever the geography
resolve_code_any_geo(code, geo) ==
    LET c == Strip(code)
    IN  IF c \in DOMAIN ZCTA_OVERRIDES THEN ZCTA_OVERRIDES[c] ELSE c

resolve_code_for_geo(code, geo) ==
    LET c == Strip(code)
    IN  IF is_zcta_geo(geo) /\ c \in DOMAIN ZCTA_OVERRIDES
        THEN ZCTA_OVERRIDES[c]
        ELSE c

\* the key tuple call_api_ttl builds
TtlKey(year, code, geo) ==
    LET code_eff == resolve_code_for_geo(code, geo)
        dataset  == dataset_for(code_eff)
    IN  <<year, code_eff, dataset, GeoGet(geo, "for"), GeoGet(geo, "in")>>

(***************************************************************************)
(* Tables (pandas DataFrame): columns in order, rows as column -> cell.     *)
(* The API sends every cell as a string; the Year column holds the int.     *)
(***************************************************************************)
NAME == <<"N","A","M","E">>

YearCol == <<"Y","e","a","r">>

\* pd.DataFrame(): no columns, no rows
EmptyFrame == [columns |-> <<>>, rows |-> <<>>]

\* DataFrame.empty
IsEmpty(df) == df.rows = <<>> \/ df.columns = <<>>

\* df.loc[:, ~df.columns.duplicated()]: the first occurrence of a name stays
RECURSIVE DedupCols(_)
DedupCols(cols) ==
    IF cols = <<>> THEN <<>>
    ELSE LET init == SubSeq(cols, 1, Len(cols) - 1)
             c    == cols[Len(cols)]
         IN  IF \E i \in 1..Len(init) : init[i] = c
             THEN DedupCols(init)
             ELSE Append(DedupCols(init), c)

\* pd.DataFrame(js[1:], columns=js[0]); under a repeated name a row shows the
\* cell of the first occurrence
FrameOfJson(js) ==
    LET header == js[1]
        first(c) == CHOOSE i \in 1..Len(header) :
                        header[i] = c /\ \A j \in 1..(i - 1) : header[j] # c
    IN  [columns |-> header,
         rows    |-> [r \in 1..(Len(js) - 1) |->
                        [c \in {header[i] : i \in 1..Len(header)} |->
                            js[r + 1][first(c)]]]]

\* df.loc[:, ~df.columns.duplicated()].copy()
DropDuplicateCols(df) == [df EXCEPT !.columns = DedupCols(@)]

\* df["Year"] = year
WithYear(df, year) ==
    [columns |-> IF \E i \in 1..Len(df.columns) : df.columns[i] = YearCol
                 THEN df.columns ELSE Append(df.columns, YearCol),
     rows    |-> [r \in 1..Len(df.rows) |->
                    [c \in DOMAIN df.rows[r] \cup {YearCol} |->
                        IF c = YearCol THEN year ELSE df.rows[r][c]]]]

(***************************************************************************)
(* Upstream: what one SESSION.get may come back with.  A shape is the       *)
(* status, whether the transport raised instead, the error text and the     *)
(* number and value of the data rows; the JSON echoes the requested columns.*)
(***************************************************************************)
VARIABLES
    environ, \* os.environ after load_dotenv(): name -> value
    API_KEY, \* the module global: what os.getenv returned, None or a string
    boot     \* import of the module: "importing", "exited" (SystemExit) or "ready"

bootVars == <<environ, API_KEY, boot>>

VARIABLES
    tx,      \* the transport (SESSION.get): the request in flight and its Retry counters
    tidy,    \* tidy_long: the table given and what came back
    app      \* app.py at import: the warm-up threads

sideVars == <<tx, tidy, app>>

\* total, connect and read of the Retry object
RetryTotal == 6

RetryConnect == 6

RetryRead == 6

NoEvent == [kind |-> "none", status |-> 0, retry_after |-> FALSE]

TxIdle ==
    [pc |-> "idle", sends |-> 0, total |-> RetryTotal, connect |-> RetryConnect,
     read |-> RetryRead, cause |-> NoEvent, last |-> NoEvent, out |-> "none"]

TidyIdle == [df |-> [columns |-> <<>>, rows |-> <<>>], out |-> <<>>]

AppIdle == [pc |-> "idle", started |-> {}]

SideIdle == tx = TxIdle /\ tidy = TidyIdle /\ app = AppIdle

\* an optional string: None, or a string that may be empty
NoneValue == [set |-> FALSE, val |-> ""]

Some(s) == [set |-> TRUE, val |-> s]

\* os.getenv(name)
getenv(name) == IF name \in DOMAIN environ THEN Some(environ[name]) ELSE NoneValue

\* a test that only looks for None
IsNone(o) == ~o.set

\* `not o` for an optional string: None and "" are both falsy
Not(o) == ~o.set \/ o.val = ""

\* the module was imported with a key in the environment
Started ==
    /\ environ = [n \in {"CENSUS_API_KEY"} |-> "census-api-key"]
    /\ API_KEY = Some("census-api-key")
    /\ boot = "ready"

OkShape(n, v) == [exc |-> FALSE, status |-> 200, text |-> <<>>, nrows |-> n, val |-> v, json |-> TRUE]

ErrShape(st, body) == [exc |-> FALSE, status |-> st, text |-> body, nrows |-> 0, val |-> "", json |-> FALSE]

\* requests raised: connection error or retry budget exhausted
ExcShape == [exc |-> TRUE, status |-> 0, text |-> <<>>, nrows |-> 0, val |-> "", json |-> FALSE]

\* HTTP 200 whose body is not the JSON array of arrays
BadJsonShape == [exc |-> FALSE, status |-> 200, text |-> <<>>, nrows |-> 0, val |-> "", json |-> FALSE]

BodyAmbiguous == <<"error: ", "Ambiguous Geography">>

BodyHierarchy == <<"error: ", "unknown/", "unsupported geography hierarchy">>

BodyHierarchyShort == <<"error: ", "unsupported geography hierarchy">>

BodyOther == <<"error: ", "invalid 'get' argument">>

\* str.lower() on the tokens of an error body
LowerTok(t) == IF t = "Ambiguous Geography" THEN "ambiguous geography" ELSE t

Lower(text) == [i \in 1..Len(text) |-> LowerTok(text[i])]

\* r.json() of a 200 answer to `params`: header row, then the value rows
JsonOf(params, shape) ==
    <<params.get>> \o
    [r \in 1..shape.nrows |-> [i \in 1..Len(params.get) |->
                                  IF i = 1 THEN "Long Beach" ELSE shape.val]]

\* a dict with k set / without k
DictSet(d, k, v) == [x \in DOMAIN d \cup {k} |-> IF x = k THEN v ELSE d[x]]

DictPop(d, k) == [x \in DOMAIN d \ {k} |-> d[x]]

(***************************************************************************)
(* Request executor.  An executor run is a function of its arguments and of *)
(* what upstream answers to its 1st, 2nd, ... request (`shapes`).  The run  *)
(* is the log of (request, answer) pairs in the order sent.                 *)
(***************************************************************************)
\* one SESSION.get(url, params=params); stage names the statement that sent it
Sent(stage, year, dataset, params, shape) ==
    [stage |-> stage, url |-> <<year, dataset>>, params |-> params, resp |-> shape]

HasIn(params) == "in" \in DOMAIN params

\* r.status_code of the last answer of a run
LastResp(log) == log[Len(log)].resp

\* r.raise_for_status(); js = r.json(); DataFrame; Year column
\* (dedup: whether the duplicate columns are dropped first, as
\* _call_api_cached does and call_api_vars does not)
Outcome(log, year, dedup) ==
    LET last == log[Len(log)]
    IN  IF last.resp.exc THEN [ok |-> FALSE, err |-> "transport", df |-> EmptyFrame]
        ELSE IF last.resp.status >= 400
             THEN [ok |-> FALSE, err |-> "status", df |-> EmptyFrame]
        ELSE IF ~last.resp.json
             THEN [ok |-> FALSE, err |-> "parse", df |-> EmptyFrame]
        ELSE LET raw == FrameOfJson(JsonOf(last.params, last.resp))
             IN  [ok |-> TRUE, err |-> "",
                  df |-> WithYear(IF dedup THEN DropDuplicateCols(raw) ELSE raw, year)]

\* lines 171-174 of _call_api_cached
CachedParams(code_eff, for_val, in_val) ==
    LET p0 == [get |-> <<NAME, code_eff>>, key |-> API_KEY.val]
        p1 == IF for_val # <<>> THEN DictSet(p0, "for", for_val) ELSE p0
    IN  IF in_val # <<>> THEN DictSet(p1, "in", in_val) ELSE p1

\* the first-stage retry sent with the parameters of the first attempt
CachedRetrySameParams(params, for_val, r) ==
    IF r.status = 400 /\ StartsWith(for_val, ZctaPrefix)
    THEN LET txt == Lower(r.text)
         IN  IF Contains(txt, <<"ambiguous geography">>) /\ ~HasIn(params)
             THEN <<params>>
             ELSE IF Contains(txt, <<"unknown/", "unsupported geography hierarchy">>)
                     /\ HasIn(params)
             THEN <<params>>
             ELSE <<>>
    ELSE <<>>

\* lines 181-191: the request the first stage of the quirk handler sends, if any
CachedRetry(params, for_val, r) ==
    IF r.status = 400 /\ StartsWith(for_val, ZctaPrefix)
    THEN LET txt == Lower(r.text)
         IN  IF Contains(txt, <<"ambiguous geography">>) /\ ~HasIn(params)
             THEN <<DictSet(params, "in", State06)>>
             ELSE IF Contains(txt, <<"unknown/", "unsupported geography hierarchy">>)
                     /\ HasIn(params)
             THEN <<DictPop(params, "in")>>
             ELSE <<>>
    ELSE <<>>

\* a last-ditch request that is sent after any 400, whatever the geography
CachedFlipAnyGeo(params, for_val, first, r) ==
    IF r.status = 400
    THEN IF HasIn(params)
         THEN <<DictPop(params, "in")>>
         ELSE <<DictSet(params, "in", State06)>>
    ELSE <<>>

\* lines 193-199: the last-ditch request, if any; r is the answer held then
CachedFlip(params, for_val, first, r) ==
    IF first.status = 400 /\ StartsWith(for_val, ZctaPrefix) /\ r.status = 400
    THEN IF HasIn(params)
         THEN <<DictPop(params, "in")>>
         ELSE <<DictSet(params, "in", State06)>>
    ELSE <<>>

\* a quirk handler that goes on flipping for as long as the answer is 400
CachedNextCycling(params, for_val, log) ==
    IF log = <<>> THEN <<[stage |-> "first", params |-> params]>>
    ELSE IF LastResp(log).exc THEN <<>>
    ELSE IF log[1].resp.status = 400 /\ StartsWith(for_val, ZctaPrefix)
            /\ LastResp(log).status = 400
         THEN <<[stage |-> "flip",
                 params |-> IF HasIn(log[Len(log)].params)
                            THEN DictPop(params, "in")
                            ELSE DictSet(params, "in", State06)]>>
         ELSE <<>>

\* _call_api_cached, lines 176-199, as the request it sends next after the
\* requests of `log`: <<>> when it sends no more.  An answer that is an
\* exception ends the run where it is raised.
CachedNext(params, for_val, log) ==
    IF log = <<>> THEN <<[stage |-> "first", params |-> params]>>
    ELSE IF LastResp(log).exc \/ log[Len(log)].stage = "flip" THEN <<>>
    ELSE LET retry == IF Len(log) = 1
                      THEN CachedRetry(params, for_val, log[1].resp) ELSE <<>>
             flip  == CachedFlip(params, for_val, log[1].resp, LastResp(log))
         IN  IF retry # <<>> THEN <<[stage |-> "retry", params |-> retry[1]]>>
             ELSE IF flip # <<>> THEN <<[stage |-> "flip", params |-> flip[1]]>>
             ELSE <<>>

\* lines 292-294 of call_api_vars
VarsParams(vars_, geo) ==
    LET p0 == [get |-> <<NAME>> \o vars_, key |-> API_KEY.val]
        p1 == IF "for" \in DOMAIN geo THEN DictSet(p0, "for", geo["for"]) ELSE p0
    IN  IF "in" \in DOMAIN geo THEN DictSet(p1, "in", geo["in"]) ELSE p1

\* lines 296-301: the one retry of call_api_vars, if any
VarsRetry(params, r) ==
    IF r.status = 400
       /\ Contains(IF "for" \in DOMAIN params THEN params["for"] ELSE <<>>,
                   <<"zip code tabulation area">>)
    THEN LET txt == Lower(r.text)
         IN  IF Contains(txt, <<"ambiguous geography">>) /\ ~HasIn(params)
             THEN <<DictSet(params, "in", State06)>>
             ELSE IF Contains(txt, <<"unsupported geography hierarchy">>) /\ HasIn(params)
             THEN <<DictPop(params, "in")>>
             ELSE <<>>
    ELSE <<>>

\* a call_api_vars that retries again for as long as the answer is 400
VarsNextRetryAgain(params, log) ==
    IF log = <<>> THEN <<[stage |-> "first", params |-> params]>>
    ELSE IF LastResp(log).exc THEN <<>>
    ELSE LET retry == VarsRetry(params, log[1].resp)
         IN  IF retry # <<>> /\ LastResp(log).status = 400
             THEN <<[stage |-> "retry", params |-> retry[1]]>> ELSE <<>>

\* call_api_vars, lines 295-301, as the request it sends next after `log`
VarsNext(params, log) ==
    IF log = <<>> THEN <<[stage |-> "first", params |-> params]>>
    ELSE IF LastResp(log).exc \/ Len(log) > 1 THEN <<>>
    ELSE LET retry == VarsRetry(params, log[1].resp)
         IN  IF retry # <<>> THEN <<[stage |-> "retry", params |-> retry[1]]>> ELSE <<>>

\* which executor: "cached" is _call_api_cached, "vars" the loop body of call_api_vars
NextRequest(fn, params, log) ==
    IF fn = "cached"
    THEN CachedNext(params, IF "for" \in DOMAIN params THEN params["for"] ELSE <<>>, log)
    ELSE VarsNext(params, log)

(***************************************************************************)
(* Bounds of the model                                                      *)
(***************************************************************************)
\* how many answers upstream has ready for one executor run
MaxAnswers == 4

\* every complete run of an executor that has sent `log` so far, upstream
\* answering each request with any shape of `shapes`
RECURSIVE RunsFrom(_, _, _, _, _, _)
RunsFrom(fn, year, dataset, params, shapes, log) ==
    LET nxt == NextRequest(fn, params, log)
    IN  IF nxt = <<>> \/ Len(log) >= MaxAnswers THEN {log}
        ELSE UNION { RunsFrom(fn, year, dataset, params, shapes,
                              Append(log, Sent(nxt[1].stage, year, dataset,
                                               nxt[1].params, s)))
                     : s \in shapes }

CachedRuns(year, code_eff, dataset, for_val, in_val, shapes) ==
    RunsFrom("cached", year, dataset, CachedParams(code_eff, for_val, in_val), shapes, <<>>)

VarsRuns(year, dataset, vars_, geo, shapes) ==
    RunsFrom("vars", year, dataset, VarsParams(vars_, geo), shapes, <<>>)

(***************************************************************************)
(* call_api_vars: buckets, one executor run per non-empty family, concat    *)
(***************************************************************************)
\* _dataset_for: like dataset_for, without the strip
_dataset_for(code) ==
    IF StartsWith(Upper(code), <<"D", "P">>) THEN ProfileDataset ELSE DetailedDataset

\* buckets[dataset] after the loop of lines 284-285: the codes of the family,
\* in the order given
Bucket(codes, dataset) == SelectSeq(codes, LAMBDA c : _dataset_for(c) = dataset)

\* the order in which `for dataset, vars_ in buckets.items()` visits the families
BucketOrder == <<ProfileDataset, DetailedDataset>>

\* the columns of pd.concat: those of the first frame, then the new ones
RECURSIVE UnionCols(_, _)
UnionCols(a, b) ==
    IF b = <<>> THEN a
    ELSE IF \E i \in 1..Len(a) : a[i] = Head(b)
         THEN UnionCols(a, Tail(b))
         ELSE UnionCols(Append(a, Head(b)), Tail(b))

\* pd.concat(frames, ignore_index=True): rows one after the other, a cell of a
\* column the row's frame lacks being NaN
RECURSIVE Concat(_)
Concat(frames) ==
    IF frames = <<>> THEN EmptyFrame
    ELSE IF Len(frames) = 1 THEN frames[1]
    ELSE LET rest == Concat(Tail(frames))
             cols == UnionCols(frames[1].columns, rest.columns)
             colset == {cols[i] : i \in 1..Len(cols)}
             widen(row) == [c \in colset |-> IF c \in DOMAIN row THEN row[c] ELSE "NaN"]
             all  == frames[1].rows \o rest.rows
         IN  [columns |-> cols, rows |-> [i \in 1..Len(all) |-> widen(all[i])]]

\* every complete run of call_api_vars(year, codes, geo): the families in
\* BucketOrder from position i on, `log` and `frames` being what the earlier
\* families sent and returned; a family that fails raises, ending the call
RECURSIVE ApiVarsFrom(_, _, _, _, _, _, _)
ApiVarsFrom(year, codes, geo, shapes, i, log, frames) ==
    IF i > Len(BucketOrder)
    THEN {[log |-> log, ok |-> TRUE,
           df |-> IF frames # <<>> THEN Concat(frames) ELSE EmptyFrame]}
    ELSE LET dataset == BucketOrder[i]
             vars_   == Bucket(codes, dataset)
         IN  IF vars_ = <<>>
             THEN ApiVarsFrom(year, codes, geo, shapes, i + 1, log, frames)
             ELSE UNION {
                    LET out == Outcome(run, year, FALSE)
                    IN  IF out.ok
                        THEN ApiVarsFrom(year, codes, geo, shapes, i + 1,
                                         log \o run, Append(frames, out.df))
                        ELSE {[log |-> log \o run, ok |-> FALSE, df |-> EmptyFrame]}
                    : run \in VarsRuns(year, dataset, vars_, geo, shapes) }

call_api_vars(year, codes, geo, shapes) ==
    ApiVarsFrom(year, codes, geo, shapes, 1, <<>>, <<>>)

(***************************************************************************)
(* sorted(codes): Python compares strings by code point                     *)
(***************************************************************************)
CodePoints ==
    <<" ", "(", ")", "0","1","2","3","4","5","6","7","8","9",
      "A","B","C","D","E","F","G","H","I","J","K","L","M",
      "N","O","P","Q","R","S","T","U","V","W","X","Y","Z", "_",
      "a","b","c","d","e","f","g","h","i","j","k","l","m",
      "n","o","p","q","r","s","t","u","v","w","x","y","z">>

Ord(c) == CHOOSE i \in 1..Len(CodePoints) : CodePoints[i] = c

RECURSIVE StrLess(_, _)
StrLess(a, b) ==
    IF b = <<>> THEN FALSE
    ELSE IF a = <<>> THEN TRUE
    ELSE IF Head(a) = Head(b) THEN StrLess(Tail(a), Tail(b))
    ELSE Ord(Head(a)) < Ord(Head(b))

RECURSIVE Sorted(_)
Sorted(codes) ==
    IF codes = <<>> THEN <<>>
    ELSE LET rest == Sorted(Tail(codes))
             x    == Head(codes)
             k    == Cardinality({i \in 1..Len(rest) : ~StrLess(x, rest[i])})
         IN  SubSeq(rest, 1, k) \o <<x>> \o SubSeq(rest, k + 1, Len(rest))

\* the key tuple call_api_vars_ttl builds
VarsKey(year, codes, geo) ==
    <<year, Sorted(codes), GeoGet(geo, "for"), GeoGet(geo, "in")>>

(***************************************************************************)
(* State                                                                    *)
(***************************************************************************)
VARIABLES
    rin,     \* resolver: the (code, geo, year) a caller passes
    rout,    \* resolver: <<>> or <<(code_eff, dataset)>>
    rkey,    \* resolver: <<>> or <<the key call_api_ttl builds>>
    xin,     \* executor: the arguments of one executor call
    xlog,    \* executor: the (request, answer) pairs of that call, in order
    xout,    \* executor: <<>> or <<what the call ended with>>
    vin,     \* call_api_vars: the arguments of one call
    vlog,    \* call_api_vars: the (request, answer) pairs of that call, in order
    vout,    \* call_api_vars: <<>> or <<what the call ended with>>
    now,     \* datetime.utcnow(), in minutes
    cache,   \* _cache: key -> (df, ts)
    multi,   \* _multi_cache: key -> (df, ts)
    lru,     \* the memo of @lru_cache on _call_api_cached: key -> the DataFrame
             \* object it holds, with the contents the object has now
    upstream,\* the answers upstream may give to a request
    th,      \* per thread: the call it is in
    res,     \* per thread: how its last call ended and the table the caller holds
    lastRet, \* per _cache key: the data last returned for it
    mcall,   \* call_api_ttl_many: the call in progress
    mframes, \* call_api_ttl_many: frames, in the order appended (before the sort)
    mseen    \* call_api_ttl_many: the years of the futures as_completed has yielded

resolverVars == <<rin, rout, rkey>>

execVars == <<xin, xlog, xout>>

batchVars == <<vin, vlog, vout>>

cacheVars == <<now, cache, multi, lru, upstream, lastRet>>

threadVars == <<th, res>>

manyVars == <<mcall, mframes, mseen>>

layerVars == <<cacheVars, threadVars, manyVars>>

vars == <<resolverVars, execVars, batchVars, layerVars, bootVars, sideVars>>

ZctaGeo == zcta_geo("90802")

\* a ZCTA geography to which a caller has added the containing state
ZctaInGeo == DictSet(ZctaGeo, "in", State06)

Geos == {CITY_GEO, US_GEO, ZctaGeo, ZctaInGeo}

(***************************************************************************)
(* Resolver on its own: resolve, then build the key, for every input        *)
(***************************************************************************)
ResolverCodes ==
    {DP05_0001E, DP05_0018E, B01003_001E, B01002_001E,
     <<" ">> \o DP05_0001E, DP05_0018E \o <<" ">>,
     <<"d","p","0","5","_","0","0","0","1","e">>,
     <<"g","r","o","u","p","(","B","0","1","0","0","1",")">>}

ResolverInputs == [code : ResolverCodes, geo : Geos, year : {2022, 2023}]

YEARS == 2018..2023

\* trends.py: the years of the default trend view
YEARS_FAST == {y \in YEARS : y >= (CHOOSE m \in YEARS : \A x \in YEARS : x <= m) - 2}

\* the thread of the caller; a worker of the pool is named by the year it fetches
MainThread == 0

\* the threads _warm_async starts, named by the position of their combo
WarmThreads == {1, 2, 3}

\* YEARS with one more year added in front: more years than the pool has workers
MoreYears == ((CHOOSE m \in YEARS : \A x \in YEARS : m <= x) - 1)..(CHOOSE m \in YEARS : \A x \in YEARS : x <= m)

Threads == {MainThread} \cup MoreYears \cup WarmThreads

IdleThread ==
    [pc |-> "idle", fn |-> "none", year |-> 0, codes |-> <<>>, geo |-> US_GEO,
     key |-> <<>>, tnow |-> 0, df |-> EmptyFrame, shared |-> FALSE,
     nreq |-> 0, ran |-> 0, had |-> FALSE, age |-> 0]

NoResult ==
    [kind |-> "none", fn |-> "none", key |-> <<>>, df |-> EmptyFrame,
     shared |-> FALSE, mutated |-> FALSE, nreq |-> 0, ran |-> 0,
     had |-> FALSE, age |-> 0, prev |-> <<>>, at |-> 0]

\* the state after import: empty caches, no call in progress
LayerStart ==
    /\ now = 0
    /\ cache = <<>> /\ multi = <<>> /\ lru = <<>> /\ lastRet = <<>>
    /\ th = [t \in Threads |-> IdleThread]
    /\ res = [t \in Threads |-> NoResult]
    /\ mcall = [pc |-> "idle", years |-> <<>>, code |-> <<>>, geo |-> US_GEO, ret |-> <<>>]
    /\ mframes = <<>> /\ mseen = {}

LayerIdle == LayerStart /\ upstream = {}

\* the parts of the state a specification leaves alone
ResolverIdle == rin = [code |-> <<>>, geo |-> US_GEO, year |-> 0] /\ rout = <<>> /\ rkey = <<>>

ExecIdle == xin = [fn |-> "none"] /\ xlog = <<>> /\ xout = <<>>

BatchIdle == vin = [year |-> 0, codes |-> <<>>, geo |-> US_GEO] /\ vlog = <<>> /\ vout = <<>>

InitResolve ==
    /\ rin \in ResolverInputs /\ rout = <<>> /\ rkey = <<>>
    /\ ExecIdle /\ BatchIdle /\ LayerIdle /\ Started /\ SideIdle

\* call_api / call_api_ttl, their first two statements
Resolve ==
    /\ rout = <<>>
    /\ rout' = <<[code_eff |-> resolve_code_for_geo(rin.code, rin.geo),
                  dataset  |-> dataset_for(resolve_code_for_geo(rin.code, rin.geo))]>>
    /\ UNCHANGED <<rin, rkey, execVars, batchVars, layerVars, bootVars, sideVars>>

\* call_api_ttl, its third statement
BuildKey ==
    /\ rout # <<>> /\ rkey = <<>>
    /\ rkey' = <<TtlKey(rin.year, rin.code, rin.geo)>>
    /\ UNCHANGED <<rin, rout, execVars, batchVars, layerVars, bootVars, sideVars>>

\* the next call, with other arguments
ResolveAgain ==
    /\ rkey # <<>>
    /\ rin' \in ResolverInputs
    /\ rout' = <<>> /\ rkey' = <<>>
    /\ UNCHANGED <<execVars, batchVars, layerVars, bootVars, sideVars>>

NextResolve == Resolve \/ BuildKey \/ ResolveAgain

SpecResolve == InitResolve /\ [][NextResolve]_vars

(***************************************************************************)
(* Executor on its own: one run against every sequence of answers           *)
(***************************************************************************)
ExecShapes ==
    {OkShape(1, "100"), ErrShape(400, BodyAmbiguous), ErrShape(400, BodyHierarchy),
     ErrShape(400, BodyHierarchyShort), ErrShape(400, BodyOther),
     ErrShape(404, BodyOther), ExcShape, BadJsonShape}

ExecInputs ==
    [fn : {"cached"}, year : {2023}, codes : {<<B01003_001E>>}, geo : Geos]
    \cup [fn : {"vars"}, year : {2023},
          codes : {<<DP05_0001E>>, <<B01003_001E, B01002_001E>>}, geo : Geos]

InitExec ==
    /\ xin \in ExecInputs /\ xlog = <<>> /\ xout = <<>>
    /\ ResolverIdle /\ BatchIdle /\ LayerIdle /\ Started /\ SideIdle

\* _call_api_cached(year, code_eff, dataset, for_val, in_val), past the memo
ExecCached ==
    /\ xin.fn = "cached" /\ xlog = <<>>
    /\ \E log \in CachedRuns(xin.year, xin.codes[1], dataset_for(xin.codes[1]),
                             GeoGet(xin.geo, "for"), GeoGet(xin.geo, "in"), ExecShapes) :
         /\ xlog' = log
         /\ xout' = <<Outcome(log, xin.year, TRUE)>>
    /\ UNCHANGED <<xin, resolverVars, batchVars, layerVars, bootVars, sideVars>>

\* one dataset family of call_api_vars: the body of its loop
ExecVars ==
    /\ xin.fn = "vars" /\ xlog = <<>>
    /\ \E log \in VarsRuns(xin.year, dataset_for(xin.codes[1]), xin.codes, xin.geo,
                           ExecShapes) :
         /\ xlog' = log
         /\ xout' = <<Outcome(log, xin.year, FALSE)>>
    /\ UNCHANGED <<xin, resolverVars, batchVars, layerVars, bootVars, sideVars>>

\* the next run, with other arguments
ExecAgain ==
    /\ xlog # <<>>
    /\ xin' \in ExecInputs
    /\ xlog' = <<>> /\ xout' = <<>>
    /\ UNCHANGED <<resolverVars, batchVars, layerVars, bootVars, sideVars>>

NextExec == ExecCached \/ ExecVars \/ ExecAgain

SpecExec == InitExec /\ [][NextExec]_vars

(***************************************************************************)
(* call_api_vars on its own: one call for every list of codes               *)
(***************************************************************************)
\* the longest list of codes a caller passes
MaxCodes == 2

CodePool == {DP05_0001E, DP05_0018E, B01003_001E}

CodeLists == UNION {[1..n -> CodePool] : n \in 0..MaxCodes}

BatchInputs == [year : {2023}, codes : CodeLists, geo : Geos]

BatchShapes == ExecShapes \cup {OkShape(2, "200")}

InitBatch ==
    /\ vin \in BatchInputs /\ vlog = <<>> /\ vout = <<>>
    /\ ResolverIdle /\ ExecIdle /\ LayerIdle /\ Started /\ SideIdle

\* call_api_vars(year, codes, geo), the whole call
CallApiVars ==
    /\ vout = <<>>
    /\ \E run \in call_api_vars(vin.year, vin.codes, vin.geo, BatchShapes) :
         /\ vlog' = run.log
         /\ vout' = <<[ok |-> run.ok, df |-> run.df]>>
    /\ UNCHANGED <<vin, resolverVars, execVars, layerVars, bootVars, sideVars>>

\* the next call, with other arguments
CallApiVarsAgain ==
    /\ vout # <<>>
    /\ vin' \in BatchInputs
    /\ vlog' = <<>> /\ vout' = <<>>
    /\ UNCHANGED <<resolverVars, execVars, layerVars, bootVars, sideVars>>

NextBatch == CallApiVars \/ CallApiVarsAgain

SpecBatch == InitBatch /\ [][NextBatch]_vars

(***************************************************************************)
(* Cache layer: call_api_ttl over call_api over the lru memo, and           *)
(* call_api_vars_ttl over call_api_vars.  A call is a thread's walk through *)
(* lookup, memo probe, executor run and store; the clock moves between the  *)
(* steps of any thread.                                                     *)
(***************************************************************************)
\* timedelta(minutes=ttl_minutes) against utcnow() - ts
IsFreshInclusive(ts, tnow, ttl_minutes) == tnow - ts <= ttl_minutes

IsFresh(ts, tnow, ttl_minutes) == tnow - ts < ttl_minutes

\* DataFrame.copy(): a new object with the same contents
Copy(df) == df

\* what a caller does to a table it was handed: overwrite the data cells
EditFrame(df) ==
    [df EXCEPT !.rows = [i \in 1..Len(df.rows) |->
        [c \in DOMAIN df.rows[i] |->
            IF c \in {NAME, YearCol} THEN df.rows[i][c] ELSE "edited"]]]

HalfTTL == _TTL_MINUTES \div 2

MaxTicks == 3

\* how a call ends: what the caller gets and what the call did to get it
Returned(t, kind, df, shared) ==
    [kind |-> kind, fn |-> th[t].fn, key |-> th[t].key, df |-> df,
     shared |-> shared, mutated |-> FALSE, nreq |-> th[t].nreq, ran |-> th[t].ran,
     had |-> th[t].had, age |-> th[t].age,
     prev |-> IF th[t].key \in DOMAIN lastRet THEN <<lastRet[th[t].key]>> ELSE <<>>,
     at |-> now]

\* call_api_ttl, lines 232-241: build the key, serve a fresh entry as a copy
TtlLookup(t, year, code, geo) ==
    /\ th[t].pc = "idle"
    /\ LET key == TtlKey(year, code, geo)
           had == key \in DOMAIN cache
           me  == [IdleThread EXCEPT !.fn = "ttl", !.year = year, !.codes = <<code>>,
                      !.geo = geo, !.key = key, !.tnow = now, !.had = had,
                      !.age = IF had THEN now - cache[key].ts ELSE 0]
       IN  IF had /\ IsFresh(cache[key].ts, now, _TTL_MINUTES)
           THEN /\ res' = [res EXCEPT ![t] =
                       [kind |-> "hit", fn |-> "ttl", key |-> key, df |-> Copy(cache[key].df),
                        shared |-> FALSE, mutated |-> FALSE, nreq |-> 0, ran |-> 0,
                        had |-> TRUE, age |-> me.age,
                        prev |-> IF key \in DOMAIN lastRet THEN <<lastRet[key]>> ELSE <<>>,
                        at |-> now]]
                /\ lastRet' = DictSet(lastRet, key, cache[key].df)
                /\ UNCHANGED th
           ELSE /\ th' = [th EXCEPT ![t] = [me EXCEPT !.pc = "call"]]
                /\ res' = [res EXCEPT ![t] = NoResult]
                /\ UNCHANGED lastRet
    /\ UNCHANGED <<now, cache, multi, lru, upstream>>

\* call_api, lines 219-222, entering _call_api_cached: the memo is probed
\* with (year, code_eff, dataset, for, in); a hit hands out the held object
CallApi(t) ==
    /\ th[t].pc = "call"
    /\ LET code_eff == resolve_code_for_geo(th[t].codes[1], th[t].geo)
           k == <<th[t].year, code_eff, dataset_for(code_eff),
                  GeoGet(th[t].geo, "for"), GeoGet(th[t].geo, "in")>>
       IN  IF k \in DOMAIN lru
           THEN th' = [th EXCEPT ![t].pc = "store", ![t].shared = TRUE, ![t].df = lru[k]]
           ELSE th' = [th EXCEPT ![t].pc = "net"]
    /\ UNCHANGED <<cacheVars, res>>

\* a memo that remembers a failed call as an empty table
MemoEmptyOnRaise(memo, k) == DictSet(memo, k, EmptyFrame)

\* lru_cache stores a result only when the wrapped call returns; one that
\* raises leaves the memo as it is
MemoAfterRaise(memo, k) == memo

\* _call_api_cached, lines 156-213: the executor run; the memo keeps the
\* result of the first call to finish for a key
Net(t) ==
    /\ th[t].pc = "net"
    /\ LET code_eff == resolve_code_for_geo(th[t].codes[1], th[t].geo)
           dataset  == dataset_for(code_eff)
           k == <<th[t].year, code_eff, dataset,
                  GeoGet(th[t].geo, "for"), GeoGet(th[t].geo, "in")>>
       IN  \E log \in CachedRuns(th[t].year, code_eff, dataset,
                                 GeoGet(th[t].geo, "for"), GeoGet(th[t].geo, "in"), upstream) :
             LET out == Outcome(log, th[t].year, TRUE)
                 me  == [th[t] EXCEPT !.nreq = Len(log), !.ran = 1]
             IN  IF out.ok
                 THEN /\ lru' = IF k \in DOMAIN lru THEN lru ELSE DictSet(lru, k, out.df)
                      /\ th' = [th EXCEPT ![t] = [me EXCEPT !.pc = "store", !.df = out.df,
                                                     !.shared = k \notin DOMAIN lru]]
                      /\ UNCHANGED res
                 ELSE /\ res' = [res EXCEPT ![t] =
                             [NoResult EXCEPT !.kind = "raised", !.fn = "ttl", !.key = me.key,
                                !.nreq = me.nreq, !.ran = 1, !.had = me.had, !.age = me.age]]
                      /\ th' = [th EXCEPT ![t] = IdleThread]
                      /\ lru' = MemoAfterRaise(lru, k)
    /\ UNCHANGED <<now, cache, multi, upstream, lastRet>>

\* a store that updates the entry's table in place and leaves its timestamp
TtlStoreTableOnly(t) ==
    /\ th[t].pc = "store" /\ th[t].fn = "ttl"
    /\ LET key == th[t].key
           df  == IF th[t].shared THEN lru[key] ELSE th[t].df
       IN  /\ cache' = DictSet(cache, key,
                 [df |-> Copy(df),
                  ts |-> IF key \in DOMAIN cache THEN cache[key].ts ELSE th[t].tnow])
           /\ res' = [res EXCEPT ![t] = Returned(t, "stored", df, th[t].shared)]
           /\ lastRet' = DictSet(lastRet, key, df)
    /\ th' = [th EXCEPT ![t] = IdleThread]
    /\ UNCHANGED <<now, multi, lru, upstream>>

\* call_api_ttl, lines 244-245: store a copy under the lookup's timestamp,
\* return df itself
TtlStore(t) ==
    /\ th[t].pc = "store" /\ th[t].fn = "ttl"
    /\ LET key == th[t].key
           df  == IF th[t].shared THEN lru[key] ELSE th[t].df
       IN  /\ cache' = DictSet(cache, key, [df |-> Copy(df), ts |-> th[t].tnow])
           /\ res' = [res EXCEPT ![t] = Returned(t, "stored", df, th[t].shared)]
           /\ lastRet' = DictSet(lastRet, key, df)
    /\ th' = [th EXCEPT ![t] = IdleThread]
    /\ UNCHANGED <<now, multi, lru, upstream>>

\* call_api_vars_ttl, lines 313-319: build the key, serve a fresh entry as a copy
VarsTtlLookup(t, year, codes, geo) ==
    /\ th[t].pc = "idle"
    /\ LET key == VarsKey(year, codes, geo)
           had == key \in DOMAIN multi
           me  == [IdleThread EXCEPT !.fn = "vars", !.year = year, !.codes = codes,
                      !.geo = geo, !.key = key, !.tnow = now, !.had = had,
                      !.age = IF had THEN now - multi[key].ts ELSE 0]
       IN  IF had /\ IsFresh(multi[key].ts, now, _TTL_MINUTES)
           THEN /\ res' = [res EXCEPT ![t] =
                       [kind |-> "hit", fn |-> "vars", key |-> key, df |-> Copy(multi[key].df),
                        shared |-> FALSE, mutated |-> FALSE, nreq |-> 0, ran |-> 0,
                        had |-> TRUE, age |-> me.age, prev |-> <<>>, at |-> now]]
                /\ UNCHANGED th
           ELSE /\ th' = [th EXCEPT ![t] = [me EXCEPT !.pc = "net"]]
                /\ res' = [res EXCEPT ![t] = NoResult]
    /\ UNCHANGED cacheVars

\* call_api_vars_ttl, line 320: call_api_vars, which has no memo
VarsTtlNet(t) ==
    /\ th[t].pc = "net" /\ th[t].fn = "vars"
    /\ \E run \in call_api_vars(th[t].year, th[t].codes, th[t].geo, upstream) :
         LET me == [th[t] EXCEPT !.nreq = Len(run.log), !.ran = 1]
         IN  IF run.ok
             THEN /\ th' = [th EXCEPT ![t] = [me EXCEPT !.pc = "store", !.df = run.df]]
                  /\ UNCHANGED res
             ELSE /\ res' = [res EXCEPT ![t] =
                         [NoResult EXCEPT !.kind = "raised", !.fn = "vars", !.key = me.key,
                            !.nreq = me.nreq, !.ran = 1, !.had = me.had, !.age = me.age]]
                  /\ th' = [th EXCEPT ![t] = IdleThread]
    /\ UNCHANGED cacheVars

\* call_api_vars_ttl, lines 321-322: store a copy, return df itself
VarsTtlStore(t) ==
    /\ th[t].pc = "store" /\ th[t].fn = "vars"
    /\ multi' = DictSet(multi, th[t].key, [df |-> Copy(th[t].df), ts |-> th[t].tnow])
    /\ res' = [res EXCEPT ![t] = [Returned(t, "stored", th[t].df, FALSE) EXCEPT !.prev = <<>>]]
    /\ th' = [th EXCEPT ![t] = IdleThread]
    /\ UNCHANGED <<now, cache, lru, upstream, lastRet>>

\* the caller writes into the table its last call returned; when that table
\* is the object the memo holds, the memo's contents change with it
Mutate(t) ==
    /\ res[t].kind \in {"hit", "stored"}
    /\ EditFrame(res[t].df) # res[t].df
    /\ res' = [u \in Threads |->
          IF u = t \/ (res[t].shared /\ res[u].shared /\ res[u].key = res[t].key)
          THEN [res[u] EXCEPT !.df = EditFrame(@), !.mutated = TRUE]
          ELSE res[u]]
    /\ lru' = IF res[t].shared
              THEN DictSet(lru, res[t].key, EditFrame(lru[res[t].key]))
              ELSE lru
    /\ UNCHANGED <<now, cache, multi, upstream, lastRet, th>>

\* datetime.utcnow() advances
Tick ==
    /\ now < MaxTicks * HalfTTL
    /\ now' = now + HalfTTL
    /\ UNCHANGED <<cache, multi, lru, upstream, lastRet, th, res>>

(***************************************************************************)
(* One caller, calling again and again as the clock moves                   *)
(***************************************************************************)
TtlCalls ==
    { [year |-> 2023, code |-> DP05_0001E, geo |-> ZctaGeo],
      [year |-> 2023, code |-> B01003_001E, geo |-> CITY_GEO] }

VarsTtlCalls ==
    { [year |-> 2023, codes |-> <<DP05_0001E, B01003_001E>>, geo |-> CITY_GEO] }

TtlShapes ==
    { OkShape(1, "100"), ErrShape(404, BodyOther), ErrShape(400, BodyAmbiguous),
      ExcShape, BadJsonShape }

InitTtl ==
    /\ ResolverIdle /\ ExecIdle /\ BatchIdle
    /\ LayerStart /\ Started /\ SideIdle
    /\ upstream = TtlShapes

NextTtl ==
    \/ (\E a \in TtlCalls : TtlLookup(MainThread, a.year, a.code, a.geo))
          /\ UNCHANGED <<resolverVars, execVars, batchVars, manyVars, bootVars, sideVars>>
    \/ CallApi(MainThread) /\ UNCHANGED <<resolverVars, execVars, batchVars, manyVars, bootVars, sideVars>>
    \/ (th[MainThread].fn = "ttl" /\ Net(MainThread))
          /\ UNCHANGED <<resolverVars, execVars, batchVars, manyVars, bootVars, sideVars>>
    \/ TtlStore(MainThread) /\ UNCHANGED <<resolverVars, execVars, batchVars, manyVars, bootVars, sideVars>>
    \/ (\E a \in VarsTtlCalls : VarsTtlLookup(MainThread, a.year, a.codes, a.geo))
          /\ UNCHANGED <<resolverVars, execVars, batchVars, manyVars, bootVars, sideVars>>
    \/ VarsTtlNet(MainThread) /\ UNCHANGED <<resolverVars, execVars, batchVars, manyVars, bootVars, sideVars>>
    \/ VarsTtlStore(MainThread) /\ UNCHANGED <<resolverVars, execVars, batchVars, manyVars, bootVars, sideVars>>
    \/ Mutate(MainThread) /\ UNCHANGED <<resolverVars, execVars, batchVars, manyVars, bootVars, sideVars>>
    \/ Tick /\ UNCHANGED <<resolverVars, execVars, batchVars, manyVars, bootVars, sideVars>>

SpecTtl == InitTtl /\ [][NextTtl]_vars

(***************************************************************************)
(* call_api_ttl_many: one call_api_ttl per year on a pool of worker         *)
(* threads; the caller collects the futures as they complete, then sorts.   *)
(***************************************************************************)
\* the sort key of line 44
YearKey(d) ==
    IF (\E i \in 1..Len(d.columns) : d.columns[i] = YearCol) /\ ~IsEmpty(d)
    THEN d.rows[1][YearCol]
    ELSE 0

\* the frames as appended, left in completion order
Unsorted(frames) == frames

\* list.sort(key=...): stable, ascending
InsertFrame(sorted, d) ==
    LET n == Cardinality({i \in 1..Len(sorted) : YearKey(sorted[i]) <= YearKey(d)})
    IN  SubSeq(sorted, 1, n) \o <<d>> \o SubSeq(sorted, n + 1, Len(sorted))

RECURSIVE SortedFrames(_)
SortedFrames(frames) ==
    IF frames = <<>> THEN <<>>
    ELSE InsertFrame(SortedFrames(SubSeq(frames, 1, Len(frames) - 1)), frames[Len(frames)])

\* a worker for every year, however many
PoolSizeUncapped(years) == Len(years)

\* max_workers of line 37
PoolSize(years) == IF Len(years) < 6 THEN Len(years) ELSE 6

YearsOf(years) == {years[i] : i \in 1..Len(years)}

Done(y) == th[y].pc = "idle" /\ res[y].kind # "none"

\* the years whose fetch a worker is executing
Running == {y \in YearsOf(mcall.years) : th[y].pc # "idle"}

\* the queue of the pool is first in, first out: the years no worker has taken
Queued == {i \in 1..Len(mcall.years) : th[mcall.years[i]].pc = "idle" /\ res[mcall.years[i]].kind = "none"}

\* lines 36-38: the pool is built and every year is submitted;
\* ThreadPoolExecutor(max_workers=0) raises ValueError
ManyBegin(years, code, geo) ==
    /\ mcall.pc = "idle"
    /\ mcall' = [mcall EXCEPT !.pc = IF years = <<>> THEN "raised" ELSE "running",
                              !.years = years, !.code = code, !.geo = geo]
    /\ UNCHANGED <<cacheVars, threadVars, mframes, mseen>>

\* a free worker takes the next queued year and enters call_api_ttl (line 33)
WorkerStart(y) ==
    /\ mcall.pc \in {"running", "failing"}
    /\ Queued # {}
    /\ y = mcall.years[CHOOSE i \in Queued : \A j \in Queued : i <= j]
    /\ Cardinality(Running) < PoolSize(mcall.years)
    /\ TtlLookup(y, y, mcall.code, mcall.geo)
    /\ UNCHANGED manyVars

WorkerCallApi(y) == CallApi(y) /\ UNCHANGED manyVars

WorkerNet(y) == Net(y) /\ UNCHANGED manyVars

WorkerStore(y) == TtlStore(y) /\ UNCHANGED manyVars

\* lines 39-42: as_completed yields a finished future; result() re-raises
ManyCollect(y) ==
    /\ mcall.pc = "running"
    /\ y \in YearsOf(mcall.years) \ mseen
    /\ Done(y)
    /\ IF res[y].kind = "raised"
       THEN /\ mcall' = [mcall EXCEPT !.pc = "failing"]
            /\ UNCHANGED <<mframes, mseen>>
       ELSE /\ mseen' = mseen \cup {y}
            /\ mframes' = IF IsEmpty(res[y].df) THEN mframes ELSE Append(mframes, res[y].df)
            /\ UNCHANGED mcall
    /\ UNCHANGED <<cacheVars, threadVars>>

\* lines 44-45: every future was yielded; sort and return
ManyReturn ==
    /\ mcall.pc = "running"
    /\ mseen = YearsOf(mcall.years)
    /\ mcall' = [mcall EXCEPT !.pc = "returned", !.ret = SortedFrames(mframes)]
    /\ UNCHANGED <<cacheVars, threadVars, mframes, mseen>>

\* the exception reaches the caller at once, the other years abandoned
ManyRaiseAtOnce ==
    /\ mcall.pc = "failing"
    /\ mcall' = [mcall EXCEPT !.pc = "raised"]
    /\ UNCHANGED <<cacheVars, threadVars, mframes, mseen>>

\* leaving the with-block waits for every submitted year, then the
\* exception reaches the caller
ManyRaise ==
    /\ mcall.pc = "failing"
    /\ \A y \in YearsOf(mcall.years) : Done(y)
    /\ mcall' = [mcall EXCEPT !.pc = "raised"]
    /\ UNCHANGED <<cacheVars, threadVars, mframes, mseen>>

RECURSIVE Perms(_)
Perms(S) ==
    IF S = {} THEN {<<>>}
    ELSE UNION { {<<x>> \o p : p \in Perms(S \ {x})} : x \in S }

\* every list of distinct years of the trend view, the empty list included
YearLists == UNION { Perms(S) : S \in SUBSET YEARS_FAST }

ManyShapes == { OkShape(1, "100"), OkShape(0, ""), ErrShape(404, BodyOther) }

InitMany ==
    /\ ResolverIdle /\ ExecIdle /\ BatchIdle
    /\ LayerStart /\ Started /\ SideIdle
    /\ upstream = ManyShapes

NextMany ==
    \/ (\E years \in YearLists : ManyBegin(years, DP05_0001E, CITY_GEO))
          /\ UNCHANGED <<resolverVars, execVars, batchVars, bootVars, sideVars>>
    \/ (\E y \in YEARS_FAST : WorkerStart(y)) /\ UNCHANGED <<resolverVars, execVars, batchVars, bootVars, sideVars>>
    \/ (\E y \in YEARS_FAST : WorkerCallApi(y)) /\ UNCHANGED <<resolverVars, execVars, batchVars, bootVars, sideVars>>
    \/ (\E y \in YEARS_FAST : WorkerNet(y)) /\ UNCHANGED <<resolverVars, execVars, batchVars, bootVars, sideVars>>
    \/ (\E y \in YEARS_FAST : WorkerStore(y)) /\ UNCHANGED <<resolverVars, execVars, batchVars, bootVars, sideVars>>
    \/ (\E y \in YEARS_FAST : ManyCollect(y)) /\ UNCHANGED <<resolverVars, execVars, batchVars, bootVars, sideVars>>
    \/ ManyReturn /\ UNCHANGED <<resolverVars, execVars, batchVars, bootVars, sideVars>>
    \/ ManyRaise /\ UNCHANGED <<resolverVars, execVars, batchVars, bootVars, sideVars>>

SpecMany == InitMany /\ [][NextMany]_vars

(***************************************************************************)
(* call_api_ttl_many over as many as seven years, one more than the pool    *)
(* has workers.  The dashboard fetched the six years of YEARS more than     *)
(* _TTL_MINUTES ago: their entries are in _cache, expired, and in the memo  *)
(* of _call_api_cached; the seventh year was never fetched.  Upstream       *)
(* answers every request with an empty table, so no fetch raises and        *)
(* ManyRaise has nothing to do here; failing fetches are the subject of     *)
(* SpecMany.  Every thread that can take a step is eventually scheduled.    *)
(***************************************************************************)
\* the first n years of MoreYears, in ascending order
FirstYears(n) == [i \in 1..n |-> (CHOOSE m \in MoreYears : \A x \in MoreYears : m <= x) + i - 1]

PoolLists == {FirstYears(2), FirstYears(Cardinality(MoreYears))}

PoolShapes == { OkShape(0, "") }

\* the table the earlier fetch of year y returned
FetchedBefore(y) ==
    LET code_eff == resolve_code_for_geo(DP05_0001E, CITY_GEO)
        log == CHOOSE l \in CachedRuns(y, code_eff, dataset_for(code_eff),
                                        GeoGet(CITY_GEO, "for"), GeoGet(CITY_GEO, "in"),
                                        PoolShapes) : TRUE
    IN  Outcome(log, y, TRUE).df

FetchedKeys == {TtlKey(y, DP05_0001E, CITY_GEO) : y \in YEARS}

InitPool ==
    /\ ResolverIdle /\ ExecIdle /\ BatchIdle
    /\ Started /\ SideIdle
    /\ now = _TTL_MINUTES
    /\ lru = [k \in FetchedKeys |-> FetchedBefore(k[1])]
    /\ cache = [k \in FetchedKeys |-> [df |-> Copy(FetchedBefore(k[1])), ts |-> 0]]
    /\ lastRet = [k \in FetchedKeys |-> FetchedBefore(k[1])]
    /\ multi = <<>>
    /\ th = [t \in Threads |-> IdleThread]
    /\ res = [t \in Threads |-> NoResult]
    /\ mcall = [pc |-> "idle", years |-> <<>>, code |-> <<>>, geo |-> US_GEO, ret |-> <<>>]
    /\ mframes = <<>> /\ mseen = {}
    /\ upstream = PoolShapes

PoolBegin == (\E years \in PoolLists : ManyBegin(years, DP05_0001E, CITY_GEO))
                /\ UNCHANGED <<resolverVars, execVars, batchVars, bootVars, sideVars>>

PoolStart == (\E y \in MoreYears : WorkerStart(y)) /\ UNCHANGED <<resolverVars, execVars, batchVars, bootVars, sideVars>>

PoolCallApi == (\E y \in MoreYears : WorkerCallApi(y)) /\ UNCHANGED <<resolverVars, execVars, batchVars, bootVars, sideVars>>

PoolNet == (\E y \in MoreYears : WorkerNet(y)) /\ UNCHANGED <<resolverVars, execVars, batchVars, bootVars, sideVars>>

PoolStore == (\E y \in MoreYears : WorkerStore(y)) /\ UNCHANGED <<resolverVars, execVars, batchVars, bootVars, sideVars>>

PoolCollect == (\E y \in MoreYears : ManyCollect(y)) /\ UNCHANGED <<resolverVars, execVars, batchVars, bootVars, sideVars>>

PoolReturn == ManyReturn /\ UNCHANGED <<resolverVars, execVars, batchVars, bootVars, sideVars>>

NextPool ==
    \/ PoolBegin
    \/ PoolStart
    \/ PoolCallApi
    \/ PoolNet
    \/ PoolStore
    \/ PoolCollect
    \/ PoolReturn

\* a queued year can be taken: the call is open and a worker is free
CanStart ==
    /\ mcall.pc \in {"running", "failing"}
    /\ Queued # {}
    /\ Cardinality(Running) < PoolSize(mcall.years)

\* the step PoolStart takes: a queued year's fetch begins or is served at once
Starts ==
    \E y \in MoreYears :
        /\ th[y].pc = "idle" /\ res[y].kind = "none"
        /\ th'[y].pc # "idle" \/ res'[y].kind # "none"

\* the step PoolCallApi, PoolNet or PoolStore takes: a worker inside a fetch moves on
Moves == \E y \in MoreYears : th[y].pc # "idle" /\ th'[y] # th[y]

\* weak fairness of every step of the workers and of the caller.  For the
\* workers WF_vars(A) is written out as []<>~ENABLED <<A>>_vars \/ []<><<A>>_vars,
\* the enabling condition and the step each given by what they say of th and res
SpecPool ==
    /\ InitPool /\ [][NextPool]_vars
    /\ ([]<>(~CanStart) \/ []<><<Starts>>_vars)
    /\ ([]<>(Running = {}) \/ []<><<Moves>>_vars)
    /\ WF_vars(PoolCollect) /\ WF_vars(PoolReturn)

(***************************************************************************)
(* Two threads calling call_api_ttl at once (two sessions of the app, or    *)
(* two workers of a pool), on the same key or on different keys             *)
(***************************************************************************)
RaceThreads == {MainThread, 2021}

RaceCalls ==
    { [year |-> 2023, code |-> B01003_001E, geo |-> CITY_GEO] }

\* upstream may publish a revised figure between two requests
RaceShapes == { OkShape(1, "100"), OkShape(1, "200"), ErrShape(404, BodyOther) }

InitRace ==
    /\ ResolverIdle /\ ExecIdle /\ BatchIdle
    /\ LayerStart /\ Started /\ SideIdle
    /\ upstream = RaceShapes

NextRace ==
    \/ (\E t \in RaceThreads : \E a \in RaceCalls : TtlLookup(t, a.year, a.code, a.geo))
          /\ UNCHANGED <<resolverVars, execVars, batchVars, manyVars, bootVars, sideVars>>
    \/ (\E t \in RaceThreads : CallApi(t))
          /\ UNCHANGED <<resolverVars, execVars, batchVars, manyVars, bootVars, sideVars>>
    \/ (\E t \in RaceThreads : Net(t))
          /\ UNCHANGED <<resolverVars, execVars, batchVars, manyVars, bootVars, sideVars>>
    \/ (\E t \in RaceThreads : TtlStore(t))
          /\ UNCHANGED <<resolverVars, execVars, batchVars, manyVars, bootVars, sideVars>>
    \/ Tick /\ UNCHANGED <<resolverVars, execVars, batchVars, manyVars, bootVars, sideVars>>

SpecRace == InitRace /\ [][NextRace]_vars

(***************************************************************************)
(* Startup: the module is imported with or without a key in the             *)
(* environment; the executor can be called only once the import succeeded   *)
(***************************************************************************)
Environments ==
    { [n \in {} |-> ""],
      [n \in {"CENSUS_API_KEY"} |-> ""],
      [n \in {"CENSUS_API_KEY"} |-> "census-api-key"] }

InitBoot ==
    /\ environ \in Environments
    /\ API_KEY = NoneValue
    /\ boot = "importing"
    /\ xin \in ExecInputs /\ xlog = <<>> /\ xout = <<>>
    /\ ResolverIdle /\ BatchIdle /\ LayerIdle /\ SideIdle

\* lines 49-52: read the key; SystemExit when there is none
Import ==
    /\ boot = "importing"
    /\ API_KEY' = getenv("CENSUS_API_KEY")
    /\ boot' = IF Not(API_KEY') THEN "exited" ELSE "ready"
    /\ UNCHANGED <<environ, resolverVars, execVars, batchVars, layerVars, sideVars>>

NextBoot ==
    \/ Import
    \/ boot = "ready" /\ ExecCached
    \/ boot = "ready" /\ ExecVars
    \/ boot = "ready" /\ ExecAgain

SpecBoot == InitBoot /\ [][NextBoot]_vars

(***************************************************************************)
(* Transport: one SESSION.get through the HTTPAdapter mounted with          *)
(* Retry(total=6, connect=6, read=6, status_forcelist=[429, 500, 502, 503,  *)
(* 504], allowed_methods=["GET"], raise_on_status=False,                    *)
(* respect_retry_after_header=True).  An event is what one send of the GET  *)
(* comes back with.                                                         *)
(***************************************************************************)
ConnectError == [kind |-> "connect_error", status |-> 0, retry_after |-> FALSE]

ReadTimeout == [kind |-> "read_timeout", status |-> 0, retry_after |-> FALSE]

Status(s, ra) == [kind |-> "status", status |-> s, retry_after |-> ra]

status_forcelist == {429, 500, 502, 503, 504}

\* the statuses for which Retry honours a Retry-After header
RETRY_AFTER_STATUS_CODES == {413, 429, 503}

TxStatuses == {200, 400, 404, 413} \cup status_forcelist

TxEvents == {ConnectError, ReadTimeout} \cup {Status(s, ra) : s \in TxStatuses, ra \in BOOLEAN}

\* a Retry that re-sends on every error status
is_retry_any_error(total, status, has_retry_after) == status >= 400

\* Retry.is_retry for a GET
is_retry(total, status, has_retry_after) ==
    \/ status \in status_forcelist
    \/ total # 0 /\ has_retry_after /\ status \in RETRY_AFTER_STATUS_CODES

\* Retry.is_exhausted: a counter that is set and not zero went below zero
is_exhausted(total, connect, read) ==
    \E c \in {total, connect, read} : c < 0

\* Retry.increment: the counters after event e
increment(t, e) ==
    [t EXCEPT !.total = @ - 1,
              !.connect = IF e.kind = "connect_error" THEN @ - 1 ELSE @,
              !.read = IF e.kind = "read_timeout" THEN @ - 1 ELSE @]

\* SESSION.get(url, params=params, timeout=15): the first send
Get ==
    /\ tx.pc = "idle"
    /\ tx' = [tx EXCEPT !.pc = "sent", !.sends = 1]
    /\ UNCHANGED <<resolverVars, execVars, batchVars, layerVars, bootVars, tidy, app>>

\* the send in flight comes back with e: re-send, return the response, or raise
Answer(e) ==
    /\ tx.pc = "sent"
    /\ LET retry == e.kind # "status" \/ is_retry(tx.total, e.status, e.retry_after)
           t1    == increment(tx, e)
       IN  IF retry /\ ~is_exhausted(t1.total, t1.connect, t1.read)
           THEN tx' = [t1 EXCEPT !.sends = @ + 1, !.cause = e, !.last = e]
           ELSE tx' = [(IF retry THEN t1 ELSE tx) EXCEPT
                          !.pc = "done", !.last = e,
                          !.out = IF e.kind = "status" THEN "response" ELSE "raised"]
    /\ UNCHANGED <<resolverVars, execVars, batchVars, layerVars, bootVars, tidy, app>>

\* the next request starts from the adapter's Retry object again
TxAgain ==
    /\ tx.pc = "done"
    /\ tx' = TxIdle
    /\ UNCHANGED <<resolverVars, execVars, batchVars, layerVars, bootVars, tidy, app>>

InitTransport ==
    /\ ResolverIdle /\ ExecIdle /\ BatchIdle /\ LayerIdle /\ Started /\ SideIdle

NextTransport == Get \/ (\E e \in TxEvents : Answer(e)) \/ TxAgain

SpecTransport == InitTransport /\ [][NextTransport]_vars

(***************************************************************************)
(* tidy_long: melt a wide table to (ids, Variable, Value, Display).  Cells  *)
(* of variable columns are sequences of characters here, so that            *)
(* pd.to_numeric is computed.                                               *)
(***************************************************************************)
B19013_001E == <<"B","1","9","0","1","3","_","0","0","1","E">>

StateCol == <<"s","t","a","t","e">>

VariableCol == <<"V","a","r","i","a","b","l","e">>

ValueCol == <<"V","a","l","u","e">>

DisplayCol == <<"D","i","s","p","l","a","y">>

\* the names tidy_long keeps as identifiers (lines 257-260)
IdNames ==
    { NAME, YearCol, StateCol, <<"p","l","a","c","e">>, <<"u","s">>,
      <<"zip code tabulation area">>, <<"G","e","o">>, <<"T","o","p","i","c">>,
      <<"A","r","e","a">> }

LABELS ==
    [c \in {DP05_0001E, DP05_0018E, B01003_001E, B01002_001E} |->
        IF c \in {DP05_0001E, B01003_001E} THEN "Total population" ELSE "Median age (years)"]

Digits == {"0", "1", "2", "3", "4", "5", "6", "7", "8", "9"}

DigitVal(d) == CHOOSE n \in 0..9 : ToString(n) = d

\* the cell without its sign
Unsigned(cell) == IF cell # <<>> /\ cell[1] \in {"-", "+"} THEN Tail(cell) ELSE cell

\* the cell reads as a decimal number
IsNumeric(cell) ==
    LET b == Unsigned(cell)
    IN  /\ \A i \in 1..Len(b) : b[i] \in Digits \cup {"."}
        /\ Cardinality({i \in 1..Len(b) : b[i] = "."}) <= 1
        /\ \E i \in 1..Len(b) : b[i] \in Digits

RECURSIVE IntOf(_)
IntOf(ds) == IF ds = <<>> THEN 0 ELSE 10 * IntOf(SubSeq(ds, 1, Len(ds) - 1)) + DigitVal(ds[Len(ds)])

NaN == [nan |-> TRUE, neg |-> FALSE, int |-> 0, frac |-> <<>>]

NumberOf(cell) ==
    LET b   == Unsigned(cell)
        dot == IF \E i \in 1..Len(b) : b[i] = "."
               THEN CHOOSE i \in 1..Len(b) : b[i] = "." ELSE Len(b) + 1
    IN  [nan |-> FALSE, neg |-> cell[1] = "-",
         int |-> IntOf(SubSeq(b, 1, dot - 1)), frac |-> SubSeq(b, dot + 1, Len(b))]

\* errors="ignore": what cannot be read is left as it is
to_numeric_ignore(cell) == IF IsNumeric(cell) THEN NumberOf(cell) ELSE cell

\* pd.to_numeric(..., errors="coerce") on one cell
to_numeric(cell) == IF IsNumeric(cell) THEN NumberOf(cell) ELSE NaN

id_cols(df) == LET isId(c) == c \in IdNames IN SelectSeq(df.columns, isId)

val_cols(df) == LET isVal(c) == c \notin IdNames IN SelectSeq(df.columns, isVal)

\* lines 252-271
tidy_long(df) ==
    IF IsEmpty(df) THEN df
    ELSE LET ids  == id_cols(df)
             vals == val_cols(df)
             n    == Len(df.rows)
             outc == ids \o <<VariableCol, ValueCol, DisplayCol>>
         IN  [columns |-> outc,
              rows |-> [j \in 1..(n * Len(vals)) |->
                 LET c == vals[((j - 1) \div n) + 1]
                     r == df.rows[((j - 1) % n) + 1]
                 IN  [k \in {outc[i] : i \in 1..Len(outc)} |->
                        IF k = VariableCol THEN c
                        ELSE IF k = ValueCol THEN to_numeric(r[c])
                        ELSE IF k = DisplayCol
                             THEN (IF c \in DOMAIN LABELS THEN LABELS[c] ELSE c)
                        ELSE r[k]]]]

MaxRows == 2

TidyCells == { <<"3","8",".","5">>, <<"-","6">>, <<"x">>, <<>> }

TidyColumns ==
    { <<NAME, DP05_0001E, StateCol, YearCol>>,
      <<NAME, B19013_001E, YearCol>>,
      <<NAME, B01002_001E, B19013_001E, YearCol>> }

\* a table as the executors build it: NAME, the requested variables, Year
TidyRow(cols, cells) ==
    [c \in {cols[i] : i \in 1..Len(cols)} |->
        IF c = NAME THEN <<"Long Beach">>
        ELSE IF c = YearCol THEN 2023
        ELSE IF c = StateCol THEN <<"0","6">>
        ELSE cells[c]]

TidyInputs ==
    UNION { UNION { { [columns |-> cols, rows |-> rows] :
                        rows \in [1..n -> { TidyRow(cols, cells) :
                            cells \in [{cols[i] : i \in 1..Len(cols)} \ IdNames -> TidyCells] }] }
                    : n \in 0..MaxRows }
            : cols \in TidyColumns }

InitTidy ==
    /\ tidy \in [df : TidyInputs, out : {<<>>}]
    /\ tx = TxIdle /\ app = AppIdle
    /\ ResolverIdle /\ ExecIdle /\ BatchIdle /\ LayerIdle /\ Started

TidyLong ==
    /\ tidy.out = <<>>
    /\ tidy' = [tidy EXCEPT !.out = <<tidy_long(tidy.df)>>]
    /\ UNCHANGED <<resolverVars, execVars, batchVars, layerVars, bootVars, tx, app>>

NextTidy == TidyLong

SpecTidy == InitTidy /\ [][NextTidy]_vars

(***************************************************************************)
(* app.py at import: _warm_async starts one daemon thread per combo and     *)
(* returns; the threads run call_api_vars_ttl on their own                  *)
(***************************************************************************)
\* combos, lines 11-15
WarmCombos ==
    << [year |-> 2023, codes |-> <<DP05_0001E, DP05_0018E>>, geo |-> CITY_GEO],
       [year |-> 2023, codes |-> <<B01003_001E>>, geo |-> US_GEO],
       [year |-> 2022, codes |-> <<DP05_0001E>>, geo |-> CITY_GEO] >>

WarmShapes == { OkShape(1, "100"), ErrShape(404, BodyOther), ExcShape }

InitWarm ==
    /\ app = [pc |-> "warming", started |-> {}]
    /\ tx = TxIdle /\ tidy = TidyIdle
    /\ ResolverIdle /\ ExecIdle /\ BatchIdle /\ Started
    /\ LayerStart /\ upstream = WarmShapes

\* lines 16-18: Thread(target=call_api_vars_ttl, args=..., daemon=True).start()
\* for the next combo
WarmStart(i) ==
    /\ app.pc = "warming"
    /\ i = Cardinality(app.started) + 1
    /\ i \in WarmThreads
    /\ app' = [app EXCEPT !.started = @ \cup {i}]
    /\ UNCHANGED <<resolverVars, execVars, batchVars, layerVars, bootVars, tx, tidy>>

\* a startup that waits for its threads
AppReadyAfterJoin ==
    /\ app.pc = "warming"
    /\ app.started = WarmThreads
    /\ \A i \in WarmThreads : th[i].pc = "idle" /\ res[i].kind # "none"
    /\ app' = [app EXCEPT !.pc = "serving"]
    /\ UNCHANGED <<resolverVars, execVars, batchVars, layerVars, bootVars, tx, tidy>>

\* line 21 onwards: _warm_async() has returned, the import goes on and the
\* app serves
AppReady ==
    /\ app.pc = "warming"
    /\ app.started = WarmThreads
    /\ app' = [app EXCEPT !.pc = "serving"]
    /\ UNCHANGED <<resolverVars, execVars, batchVars, layerVars, bootVars, tx, tidy>>

\* a started thread enters call_api_vars_ttl with its combo
WarmLookup(i) ==
    /\ i \in app.started
    /\ res[i].kind = "none"
    /\ VarsTtlLookup(i, WarmCombos[i].year, WarmCombos[i].codes, WarmCombos[i].geo)
    /\ UNCHANGED <<resolverVars, execVars, batchVars, manyVars, bootVars, sideVars>>

WarmNet(i) ==
    /\ i \in WarmThreads
    /\ VarsTtlNet(i)
    /\ UNCHANGED <<resolverVars, execVars, batchVars, manyVars, bootVars, sideVars>>

WarmStore(i) ==
    /\ i \in WarmThreads
    /\ VarsTtlStore(i)
    /\ UNCHANGED <<resolverVars, execVars, batchVars, manyVars, bootVars, sideVars>>

\* a session of the running app asks for one of the warmed shapes
UserLookup ==
    /\ app.pc = "serving"
    /\ \E c \in {WarmCombos[1], WarmCombos[2]} :
          VarsTtlLookup(MainThread, c.year, c.codes, c.geo)
    /\ UNCHANGED <<resolverVars, execVars, batchVars, manyVars, bootVars, sideVars>>

UserNet ==
    /\ VarsTtlNet(MainThread)
    /\ UNCHANGED <<resolverVars, execVars, batchVars, manyVars, bootVars, sideVars>>

UserStore ==
    /\ VarsTtlStore(MainThread)
    /\ UNCHANGED <<resolverVars, execVars, batchVars, manyVars, bootVars, sideVars>>

NextWarm ==
    \/ \E i \in WarmThreads : WarmStart(i)
    \/ AppReady
    \/ \E i \in WarmThreads : WarmLookup(i)
    \/ \E i \in WarmThreads : WarmNet(i)
    \/ \E i \in WarmThreads : WarmStore(i)
    \/ UserLookup
    \/ UserNet
    \/ UserStore

SpecWarm == InitWarm /\ [][NextWarm]_vars

(***************************************************************************)
(* The two batch entry points on the shortest inputs: call_api_vars on a    *)
(* list of at most one code, call_api_ttl_many on a list of at most one     *)
(* year                                                                     *)
(***************************************************************************)
ShortCodeLists == {codes \in CodeLists : Len(codes) <= 1}

ShortYearLists == {years \in YearLists : Len(years) <= 1}

InitShort ==
    /\ vin \in [year : {2023}, codes : ShortCodeLists, geo : Geos]
    /\ vlog = <<>> /\ vout = <<>>
    /\ ResolverIdle /\ ExecIdle
    /\ LayerStart /\ Started /\ SideIdle
    /\ upstream = ManyShapes

NextShort ==
    \/ CallApiVars
    \/ (\E years \in ShortYearLists : ManyBegin(years, DP05_0001E, CITY_GEO)) /\ UNCHANGED <<resolverVars, execVars, batchVars, bootVars, sideVars>>
    \/ (\E y \in YEARS_FAST : WorkerStart(y)) /\ UNCHANGED <<resolverVars, execVars, batchVars, bootVars, sideVars>>
    \/ (\E y \in YEARS_FAST : WorkerCallApi(y)) /\ UNCHANGED <<resolverVars, execVars, batchVars, bootVars, sideVars>>
    \/ (\E y \in YEARS_FAST : WorkerNet(y)) /\ UNCHANGED <<resolverVars, execVars, batchVars, bootVars, sideVars>>
    \/ (\E y \in YEARS_FAST : WorkerStore(y)) /\ UNCHANGED <<resolverVars, execVars, batchVars, bootVars, sideVars>>
    \/ (\E y \in YEARS_FAST : ManyCollect(y)) /\ UNCHANGED <<resolverVars, execVars, batchVars, bootVars, sideVars>>
    \/ ManyReturn /\ UNCHANGED <<resolverVars, execVars, batchVars, bootVars, sideVars>>
    \/ ManyRaise /\ UNCHANGED <<resolverVars, execVars, batchVars, bootVars, sideVars>>

SpecShort == InitShort /\ [][NextShort]_vars

(***************************************************************************)
(* Properties of the executor (SpecExec)                                    *)
(***************************************************************************)
ZctaGeos == {ZctaGeo, ZctaInGeo}

\* the answer is a table: HTTP 200 with a parseable body
IsTable(r) == ~r.exc /\ r.status = 200 /\ r.json

\* the call returned a table that holds the rows of answer r
ReturnedTableOf(r) ==
    /\ xout[1].ok
    /\ Len(xout[1].df.rows) = r.nrows
    /\ \A i \in 1..Len(xout[1].df.rows) :
         \A c \in DOMAIN xout[1].df.rows[i] :
            c \notin {NAME, YearCol} => xout[1].df.rows[i][c] = r.val

\* the retry went out, differs from the first attempt only in the region
\* clause, which is present iff `withRegion`, and a retry that is not 400 is
\* the last request, a table it brings being the call's result
RetriedOnce(withRegion) ==
    /\ Len(xlog) >= 2
    /\ xlog[2].url = xlog[1].url
    /\ xlog[2].params = IF withRegion
                        THEN DictSet(xlog[1].params, "in", State06)
                        ELSE DictPop(xlog[1].params, "in")
    /\ HasIn(xlog[2].params) = withRegion
    /\ (xlog[2].resp.exc \/ xlog[2].resp.status # 400 => Len(xlog) = 2)
    /\ (IsTable(xlog[2].resp) => ReturnedTableOf(xlog[2].resp))

\* C4: in both executors, a ZCTA first attempt answered 400 "ambiguous
\* geography" without a region clause is retried once with the region clause,
\* one answered 400 "unsupported geography hierarchy" with a region clause is
\* retried once without it, and a retry that succeeds ends the call with the
\* retry's table.
C4_QuirkRetry ==
    (xlog # <<>> /\ xin.geo \in ZctaGeos /\ ~xlog[1].resp.exc
        /\ xlog[1].resp.status = 400)
    => /\ (xlog[1].resp.text = BodyAmbiguous /\ ~HasIn(xlog[1].params))
            => RetriedOnce(TRUE)
       /\ (xlog[1].resp.text \in {BodyHierarchy, BodyHierarchyShort}
              /\ HasIn(xlog[1].params))
            => RetriedOnce(FALSE)

C4_Witness ==
    /\ Len(xlog) = 2 /\ xin.geo = ZctaGeo
    /\ xlog[1].resp.text = BodyAmbiguous
    /\ xlog[2].stage = "retry" /\ HasIn(xlog[2].params)
    /\ xout[1].ok

\* C5: a last-ditch request that follows a retry differs from that retry in
\* whether it carries the region clause.
C5_FlipDiffersFromRetry ==
    \A i \in 2..Len(xlog) :
        (xlog[i].stage = "flip" /\ xlog[i - 1].stage = "retry")
        => HasIn(xlog[i].params) # HasIn(xlog[i - 1].params)

\* C6: an executor call sends at most 3 requests after the first, and a
\* last-ditch request answered 400 is the last request: the call fails with it.
C6_BoundedRequests ==
    xlog # <<>>
    => /\ Len(xlog) <= 1 + 3
       /\ xout # <<>>
       /\ \A i \in 1..Len(xlog) :
            (xlog[i].stage = "flip" /\ ~xlog[i].resp.exc /\ xlog[i].resp.status = 400)
            => (i = Len(xlog) /\ ~xout[1].ok /\ xout[1].err = "status")

C6_Witness ==
    /\ Len(xlog) = 3
    /\ xlog[3].stage = "flip" /\ xlog[3].resp.status = 400
    /\ ~xout[1].ok

(***************************************************************************)
(* Properties of the resolver (SpecResolve)                                 *)
(***************************************************************************)
\* the key is built from the resolved pair and the geography clauses
KeyFromResolved ==
    rkey # <<>>
    => rkey[1] = <<rin.year, rout[1].code_eff, rout[1].dataset,
                   GeoGet(rin.geo, "for"), GeoGet(rin.geo, "in")>>

ResolverExamples ==
    /\ (rin.code = DP05_0001E /\ rin.geo = ZctaGeo)
         => rout[1] = [code_eff |-> B01003_001E, dataset |-> DetailedDataset]
    /\ (rin.code = DP05_0001E /\ rin.geo = CITY_GEO)
         => rout[1] = [code_eff |-> DP05_0001E, dataset |-> ProfileDataset]

Families == {ProfileDataset, DetailedDataset}

\* the positions of the log that went to a dataset family
RequestsTo(ds) == {i \in 1..Len(vlog) : vlog[i].url[2] = ds}

\* the codes of the call that belong to a family, in the order given
FamilyCodes(ds) ==
    SelectSeq(vin.codes,
              LAMBDA c : (SubSeq(c, 1, 2) = <<"D", "P">>) = (ds = ProfileDataset))

\* the answer that ended a family's requests
FinalAnswer(ds) == vlog[CHOOSE i \in RequestsTo(ds) : \A j \in RequestsTo(ds) : j <= i].resp

RowsOf(ds) == IF RequestsTo(ds) = {} THEN 0 ELSE FinalAnswer(ds).nrows

\* the table returned is the profile family's rows followed by the detailed
\* family's, each row holding its family's values under its family's codes
IsConcatOfFamilies ==
    LET df == vout[1].df
        np == RowsOf(ProfileDataset)
    IN  /\ Len(df.rows) = np + RowsOf(DetailedDataset)
        /\ \A i \in 1..Len(df.rows) :
             LET ds == IF i <= np THEN ProfileDataset ELSE DetailedDataset
             IN  /\ df.rows[i][YearCol] = vin.year
                 /\ \A k \in 1..Len(FamilyCodes(ds)) :
                      df.rows[i][FamilyCodes(ds)[k]] = FinalAnswer(ds).val

\* what C8 and its amendment share: a family without a code gets no request,
\* a family with codes gets one request that names them all, and a call that
\* succeeds returns the families' tables one after the other
OneRequestNamesAllCodes ==
    \A ds \in Families :
        /\ (FamilyCodes(ds) = <<>> => RequestsTo(ds) = {})
        /\ \A i \in RequestsTo(ds) : vlog[i].params.get = <<NAME>> \o FamilyCodes(ds)
        /\ Cardinality({i \in RequestsTo(ds) : vlog[i].stage = "first"}) <= 1

C9_VarsResolvesCodes ==
    (vout # <<>> /\ vin.geo \in ZctaGeos)
    => \A i \in 1..Len(vlog) :
         /\ \A k \in 1..Len(vlog[i].params.get) :
              vlog[i].params.get[k] \notin {DP05_0001E, DP05_0018E}
         /\ vlog[i].url[2] = DetailedDataset

(***************************************************************************)
(* Properties of the cache layer (SpecTtl)                                  *)
(***************************************************************************)
\* a call_api_ttl call that found an entry for its key and did not serve it
ExpiredCall(t) ==
    res[t].fn = "ttl" /\ res[t].had /\ res[t].kind \in {"stored", "raised"}

\* C1: a call_api_ttl call that finds its key's entry expired runs the
\* executor exactly once and sends at least one request upstream.
C1_ExpiryRefetches ==
    \A t \in Threads :
        ExpiredCall(t) => res[t].ran = 1 /\ res[t].nreq >= 1

\* C2: a call_api_ttl call that finds an entry younger than the TTL returns
\* the data last returned for the key and sends nothing upstream; an entry
\* aged exactly the TTL (or more) is not served, the call goes on to fetch.
C2_FreshHitNoRequest ==
    \A t \in Threads :
        /\ (res[t].fn = "ttl" /\ res[t].kind # "none" /\ res[t].had) =>
              IF res[t].age < _TTL_MINUTES
              THEN /\ res[t].kind = "hit" /\ res[t].nreq = 0 /\ res[t].ran = 0
                   /\ ~res[t].mutated => res[t].prev = <<res[t].df>>
              ELSE res[t].kind # "hit"
        /\ (res[t].fn = "ttl" /\ res[t].kind = "hit") => res[t].had
        /\ (th[t].fn = "ttl" /\ th[t].pc # "idle" /\ th[t].had) =>
              th[t].age >= _TTL_MINUTES

\* a second call, half a TTL after the first stored, was served from the cache
C2_Witness ==
    /\ res[MainThread].fn = "ttl" /\ res[MainThread].kind = "hit"
    /\ res[MainThread].age = HalfTTL
    /\ res[MainThread].prev = <<res[MainThread].df>>
    /\ Len(res[MainThread].df.rows) = 1

IsEdited(df) ==
    \E i \in 1..Len(df.rows) : \E c \in DOMAIN df.rows[i] \ {NAME, YearCol} :
        df.rows[i][c] = "edited"

\* C3: whatever callers did to the tables they were handed earlier, a table
\* handed out by call_api_ttl or call_api_vars_ttl holds, at the moment it is
\* returned, only what upstream sent.
C3_ServedIsUpstream ==
    \A t \in Threads :
        (res[t].kind \in {"hit", "stored"} /\ ~res[t].mutated) => ~IsEdited(res[t].df)

(***************************************************************************)
(* Properties of the fan-out (SpecMany)                                     *)
(***************************************************************************)
\* C7: whatever order the per-year fetches complete in, the list
\* call_api_ttl_many returns holds exactly the non-empty per-year tables,
\* each the one its year's fetch returned, in ascending order of Year.
C7_SortedByYear ==
    mcall.pc = "returned" =>
        LET ret == mcall.ret
        IN  /\ \A i \in 1..Len(ret) : \A j \in 1..Len(ret) :
                  i < j => YearKey(ret[i]) < YearKey(ret[j])
            /\ {YearKey(ret[i]) : i \in 1..Len(ret)} =
                  {y \in YearsOf(mcall.years) : ~IsEmpty(res[y].df)}
            /\ \A i \in 1..Len(ret) : ret[i] = res[YearKey(ret[i])].df

\* three years, given out of order, completed in yet another order, returned
C7_Witness ==
    /\ mcall.pc = "returned"
    /\ mcall.years = <<2021, 2023, 2022>>
    /\ [i \in 1..Len(mframes) |-> YearKey(mframes[i])] = <<2023, 2021, 2022>>
    /\ Len(mcall.ret) = 3

(***************************************************************************)
(* Properties of concurrent callers (SpecRace)                              *)
(***************************************************************************)
\* thread t's last call_api_ttl call returned a table, still as returned
ServedTtl(t) ==
    res[t].fn = "ttl" /\ res[t].kind \in {"hit", "stored"} /\ ~res[t].mutated

\* C11: two call_api_ttl calls for the same key that returned less than one
\* TTL apart, on the same thread or on two, returned the same data.
C11_SameKeySameData ==
    \A t \in Threads : \A u \in Threads :
        ( /\ ServedTtl(t) /\ ServedTtl(u)
          /\ res[t].key = res[u].key
          /\ res[t].at - res[u].at < _TTL_MINUTES
          /\ res[u].at - res[t].at < _TTL_MINUTES )
        => res[t].df = res[u].df

\* C12: whenever an entry of the TTL cache appears or changes, it is one
\* storing call that wrote it, whole: the new entry is the table that call
\* returned together with the time that call took at its lookup, whatever
\* entry another call had put there before.  Entries never disappear.
C12_EntryWrittenWhole ==
    [][ /\ DOMAIN cache \subseteq DOMAIN cache'
        /\ \A k \in DOMAIN cache' :
              (k \notin DOMAIN cache \/ cache'[k] # cache[k]) =>
                  \E t \in Threads :
                      /\ th[t].pc = "store" /\ th[t].fn = "ttl" /\ th[t].key = k
                      /\ th'[t].pc = "idle" /\ res'[t].kind = "stored"
                      /\ cache'[k] = [df |-> res'[t].df, ts |-> th[t].tnow] ]_vars

\* two racing calls stored different tables for one key; the entry is the
\* later writer's table with the later writer's lookup time
C12_Witness ==
    /\ res[MainThread].kind = "stored" /\ res[2021].kind = "stored"
    /\ res[MainThread].key = res[2021].key
    /\ res[MainThread].df # res[2021].df
    /\ res[MainThread].at < res[2021].at
    /\ cache[res[2021].key].df = res[2021].df
    /\ cache[res[2021].key].ts = HalfTTL

(***************************************************************************)
(* Failure of the executor under the TTL wrappers (SpecTtl)                 *)
(***************************************************************************)
\* a call for this key, made now, would reach the executor
WouldFetch(fn, key) ==
    IF fn = "ttl"
    THEN /\ key \in DOMAIN cache => ~IsFresh(cache[key].ts, now, _TTL_MINUTES)
         /\ key \notin DOMAIN lru
    ELSE key \in DOMAIN multi => ~IsFresh(multi[key].ts, now, _TTL_MINUTES)

\* C13: when the executor run of a call_api_ttl or call_api_vars_ttl call
\* fails, the call ends with that failure after that one run, the step
\* changes neither TTL cache nor the memo, and from then on a call for the
\* same key goes to the executor again.
C13_FailureLeavesCache ==
    /\ [](\A t \in Threads :
             res[t].kind = "raised" =>
                 /\ res[t].ran = 1 /\ res[t].nreq >= 1
                 /\ WouldFetch(res[t].fn, res[t].key))
    /\ [][\A t \in Threads :
             (th[t].pc = "net" /\ res'[t].kind = "raised") =>
                 cache' = cache /\ multi' = multi /\ lru' = lru]_vars

\* a call_api_vars_ttl call found its entry expired, fetched and failed; the
\* expired entry is still there
C13_Witness ==
    /\ res[MainThread].kind = "raised" /\ res[MainThread].fn = "vars"
    /\ res[MainThread].had
    /\ res[MainThread].key \in DOMAIN multi
    /\ cache # <<>> /\ lru # <<>>

(***************************************************************************)
(* Properties of startup (SpecBoot)                                         *)
(***************************************************************************)
CredentialPresent ==
    "CENSUS_API_KEY" \in DOMAIN environ /\ environ["CENSUS_API_KEY"] # ""

\* C14: without a credential in the environment the import ends in
\* SystemExit and nothing is ever sent; every request that is sent was sent
\* after a successful import and carries a non-empty key.
C14_KeyOnEveryRequest ==
    /\ \A i \in 1..Len(xlog) : xlog[i].params.key # ""
    /\ xlog # <<>> => boot = "ready" /\ CredentialPresent
    /\ (boot # "importing" /\ ~CredentialPresent) => boot = "exited"
    /\ boot = "exited" => xlog = <<>> /\ xout = <<>>

\* the key was set but empty, and the import refused to go on
C14_Witness ==
    /\ boot = "exited"
    /\ "CENSUS_API_KEY" \in DOMAIN environ
    /\ API_KEY = Some("")

(***************************************************************************)
(* Properties of the transport (SpecTransport)                              *)
(***************************************************************************)
\* the answers after which the GET may be sent again, as listed
ListedRetryEvent(e) ==
    \/ e.kind \in {"connect_error", "read_timeout"}
    \/ e.kind = "status" /\ e.status \in status_forcelist

\* the listed ones, and a 413 that carries a Retry-After header
HonouredRetryEvent(e) ==
    ListedRetryEvent(e) \/ e = Status(413, TRUE)

\* C15 as stated: a GET is sent again only after a connection error, a read
\* timeout or a status of the force list, at most RetryTotal times; the
\* transport stops on such an answer only when the budget is used up, and
\* then the caller sees the exception or the error response; any other
\* answer, a 4xx outside the list included, is returned at once.
C15_ResendOnlyListed ==
    /\ tx.sends > 1 => ListedRetryEvent(tx.cause)
    /\ tx.sends <= 1 + RetryTotal
    /\ tx.pc = "done" =>
          /\ tx.out = IF tx.last.kind = "status" THEN "response" ELSE "raised"
          /\ ListedRetryEvent(tx.last) =>
                tx.sends = 1 + RetryTotal /\ (tx.out = "raised" \/ tx.last.status >= 400)

\* C15, amended: as above, with the 413 that carries a Retry-After header
\* among the answers after which the GET is sent again.
C15_ResendOnlyHonoured ==
    /\ tx.sends > 1 => HonouredRetryEvent(tx.cause)
    /\ tx.sends <= 1 + RetryTotal
    /\ tx.pc = "done" =>
          /\ tx.out = IF tx.last.kind = "status" THEN "response" ELSE "raised"
          /\ HonouredRetryEvent(tx.last) =>
                tx.sends = 1 + RetryTotal /\ (tx.out = "raised" \/ tx.last.status >= 400)

\* six re-sends, one of them after a 413 with Retry-After, then a timeout
\* on the seventh send reaches the caller
C15_Witness ==
    /\ tx.pc = "done" /\ tx.sends = 1 + RetryTotal
    /\ tx.out = "raised" /\ tx.last = ReadTimeout
    /\ tx.cause = Status(413, TRUE)

(***************************************************************************)
(* Properties of tidy_long (SpecTidy)                                       *)
(***************************************************************************)
\* the rows of the output that belong to variable column c, in order
RowsFor(o, c) ==
    LET isC(r) == r[VariableCol] = c IN SelectSeq(o.rows, isC)

\* C16: tidy_long returns an empty table for an empty one; otherwise each
\* variable column contributes one output row per input row, carrying that
\* row's identifiers, with Value missing where the cell is not a number and
\* Display the label of the variable, or its code when it has no label.
C16_TidyLong ==
    tidy.out # <<>> =>
        LET df == tidy.df
            o  == tidy.out[1]
            variableCols == {df.columns[i] : i \in 1..Len(df.columns)} \ IdNames
        IN  IF df.rows = <<>>
            THEN IsEmpty(o)
            ELSE /\ Len(o.rows) = Len(df.rows) * Cardinality(variableCols)
                 /\ \A c \in variableCols :
                       /\ Len(RowsFor(o, c)) = Len(df.rows)
                       /\ \A i \in 1..Len(df.rows) :
                             LET t == RowsFor(o, c)[i]
                             IN  /\ t[NAME] = df.rows[i][NAME]
                                 /\ t[YearCol] = df.rows[i][YearCol]
                                 /\ ~IsNumeric(df.rows[i][c]) => t[ValueCol] = NaN
                                 /\ IsNumeric(df.rows[i][c]) => ~t[ValueCol].nan
                                 /\ t[DisplayCol] =
                                       IF c \in {DP05_0001E, B01003_001E} THEN "Total population"
                                       ELSE IF c \in {DP05_0018E, B01002_001E}
                                            THEN "Median age (years)"
                                       ELSE c

\* two rows, a labelled and an unlabelled variable, a number next to text
C16_Witness ==
    /\ tidy.out # <<>>
    /\ tidy.df.columns = <<NAME, B01002_001E, B19013_001E, YearCol>>
    /\ Len(tidy.df.rows) = 2
    /\ tidy.df.rows[1][B19013_001E] = <<"x">>
    /\ tidy.df.rows[2][B01002_001E] = <<"3","8",".","5">>
    /\ Len(tidy.out[1].rows) = 4

(***************************************************************************)
(* Properties of the warm-up (SpecWarm)                                     *)
(***************************************************************************)
\* thread i took a step of its call
WarmStepOf(i) == th'[i] # th[i] \/ res'[i] # res[i]

\* C17: startup goes on as soon as the three threads are started, whatever
\* they are doing; a step of a warm-up thread, its failure included, changes
\* nothing of the app or of any caller's call, and in the caches only the
\* _multi_cache entry of that thread's own key.
C17_WarmUpIsBackground ==
    /\ []((app.pc = "warming" /\ app.started = WarmThreads) => ENABLED AppReady)
    /\ [](app.pc = "serving" => app.started = WarmThreads)
    /\ [][\A i \in WarmThreads :
             WarmStepOf(i) =>
                 /\ app' = app
                 /\ th'[MainThread] = th[MainThread] /\ res'[MainThread] = res[MainThread]
                 /\ cache' = cache /\ lru' = lru
                 /\ DOMAIN multi \subseteq DOMAIN multi'
                 /\ \A k \in DOMAIN multi' :
                       (k \notin DOMAIN multi \/ multi'[k] # multi[k]) =>
                           k = VarsKey(WarmCombos[i].year, WarmCombos[i].codes,
                                       WarmCombos[i].geo)]_vars

\* the app is serving while one warm-up thread has failed, one has stored
\* its entry and one is still fetching
C17_Witness ==
    /\ app.pc = "serving"
    /\ res[1].kind = "raised"
    /\ res[2].kind = "stored" /\ res[2].key \in DOMAIN multi
    /\ th[3].pc = "net"
    /\ res[MainThread].kind = "hit"

(***************************************************************************)
(* The quirk handler is entered only for a ZCTA 400 (SpecExec)              *)
(***************************************************************************)
Is400(r) == ~r.exc /\ r.status = 400

\* C18: an executor run on a geography that is not a ZCTA, or whose first
\* answer is not a 400, is one request; no request follows an answer that is
\* not a 400; and the run ends with the table or the failure of the last
\* answer received.
C18_QuirkOnlyOnZcta400 ==
    xout # <<>> =>
        /\ Len(xlog) >= 1
        /\ (xin.geo \notin ZctaGeos \/ ~Is400(xlog[1].resp)) => Len(xlog) = 1
        /\ \A i \in 1..(Len(xlog) - 1) : Is400(xlog[i].resp)
        /\ LET last == xlog[Len(xlog)].resp
           IN  /\ xout[1].ok <=> IsTable(last)
               /\ xout[1].ok => ReturnedTableOf(last)
               /\ ~xout[1].ok =>
                     xout[1].err = IF last.exc THEN "transport"
                                   ELSE IF last.status # 200 THEN "status"
                                   ELSE "parse"

\* a city request answered 400 ended after that one request, with the 400
C18_Witness ==
    /\ xout # <<>> /\ xin.geo = CITY_GEO
    /\ Len(xlog) = 1 /\ Is400(xlog[1].resp)
    /\ ~xout[1].ok /\ xout[1].err = "status"

(***************************************************************************)
(* Properties of the worker pool (SpecPool)                                 *)
(***************************************************************************)
InFlightWithinCap ==
    LET n == Len(mcall.years)
    IN  Cardinality(Running) <= (IF n < 6 THEN n ELSE 6)

ReturnsAfterAll ==
    mcall.pc = "returned" => \A y \in YearsOf(mcall.years) : Done(y)

\* C19: over n years, never more than min(6, n) per-year fetches are in
\* flight; every submitted year is eventually fetched; and the call has
\* returned only when all n fetches have completed.
C19_PoolCap ==
    /\ [](InFlightWithinCap /\ ReturnsAfterAll)
    /\ (mcall.pc = "running") ~> (\A y \in YearsOf(mcall.years) : Done(y))

\* seven years submitted: six fetches in flight, the seventh waits for a worker
C19_Witness ==
    /\ mcall.pc = "running" /\ Len(mcall.years) = 7
    /\ Cardinality(Running) = 6
    /\ Queued # {}

(***************************************************************************)
(* Properties of a fan-out with a failing year (SpecMany)                   *)
(***************************************************************************)
FailedYears == {y \in YearsOf(mcall.years) : res[y].kind = "raised"}

\* C20: a fan-out in which a year's fetch failed never returns a list; when
\* the failure reaches the caller every submitted year's fetch has run to
\* completion or failure, and every year that completed has its table in
\* the TTL cache.
C20_FailureWaitsForAll ==
    /\ (mcall.pc = "returned" => FailedYears = {})
    /\ (mcall.pc = "raised" /\ mcall.years # <<>>) =>
          /\ FailedYears # {}
          /\ mcall.ret = <<>>
          /\ \A y \in YearsOf(mcall.years) :
                /\ Done(y)
                /\ res[y].kind # "raised" =>
                      /\ res[y].key \in DOMAIN cache
                      /\ cache[res[y].key].df = res[y].df

\* the first of three years failed; the other two ran on and stored their tables
C20_Witness ==
    /\ mcall.pc = "raised"
    /\ mcall.years = <<2021, 2022, 2023>>
    /\ res[2021].kind = "raised"
    /\ res[2022].kind = "stored" /\ res[2023].kind = "stored"
    /\ Cardinality(DOMAIN cache) = 2

(***************************************************************************)
(* Properties of the batch entry points on empty inputs (SpecShort)         *)
(***************************************************************************)
\* call_api_vars with no codes: an empty table, no request
VarsEmptyReturnsEmpty ==
    (vout # <<>> /\ vin.codes = <<>>) =>
        vout[1].ok /\ IsEmpty(vout[1].df) /\ vlog = <<>>

\* call_api_ttl_many with no years: never a failure, no fetch, an empty list
ManyEmptyReturnsEmpty ==
    (mcall.pc # "idle" /\ mcall.years = <<>>) =>
        /\ mcall.pc # "raised"
        /\ \A t \in Threads : th[t].pc = "idle" /\ res[t].kind = "none"
        /\ mcall.pc = "returned" => mcall.ret = <<>>

\* C21: call_api_vars with an empty code list returns an empty table and
\* call_api_ttl_many with an empty list of years returns an empty list;
\* neither raises and neither issues an upstream request.
C21_EmptyInputsReturnEmpty == VarsEmptyReturnsEmpty /\ ManyEmptyReturnsEmpty

(***************************************************************************)
(* Properties of the stored timestamp (SpecRace)                            *)
(***************************************************************************)
\* the entry of key k is written in this step
Replaced(k) == k \notin DOMAIN cache \/ cache'[k] # cache[k]

\* thread u holds the result of the call whose fetch filled the memo of key k
FetchedFor(u, k) ==
    /\ res[u].kind = "stored" /\ res[u].key = k
    /\ res[u].ran = 1 /\ res[u].shared

\* thread t writes the entry of key k in this step
Stores(t, k) == th[t].pc = "store" /\ th[t].key = k /\ th'[t].pc = "idle"

\* the entry written carries the time its storing call took at its start, and
\* its table is not one fetched by a call that had returned before that time
TimestampIsOfFetch ==
    [][ \A k \in DOMAIN cache' :
          Replaced(k) =>
              \E t \in Threads :
                  /\ Stores(t, k)
                  /\ cache'[k].ts = th[t].tnow
                  /\ th[t].ran = 0 =>
                        \A u \in Threads : FetchedFor(u, k) => res[u].at >= th[t].tnow ]_vars

\* a replacement never puts an earlier timestamp on a key
TimestampNeverDecreases ==
    [][ \A k \in DOMAIN cache \cap DOMAIN cache' :
          cache'[k].ts >= cache[k].ts ]_vars

\* C22: the timestamp stored with an entry is the time of the fetch that
\* produced the entry's table (so never a time after the fetching call had
\* returned), and over the successive replacements of one key's entry,
\* racing calls included, the stored timestamp never decreases.
C22_TimestampOfFetch ==
    [][ \A k \in DOMAIN cache' :
          /\ Replaced(k) =>
                \E t \in Threads :
                    /\ Stores(t, k)
                    /\ cache'[k].ts = th[t].tnow
                    /\ th[t].ran = 0 =>
                          \A u \in Threads : FetchedFor(u, k) => res[u].at >= th[t].tnow
          /\ k \in DOMAIN cache => cache'[k].ts >= cache[k].ts ]_vars

====
